---------------------------- MODULE Spec2Model ----------------------------
(***************************************************************************)
(* A model of the ragster scripts: the embedders (batched, unbatched,      *)
(* single-query and sentence-transformer variants), the fallback paragraph *)
(* splitter of DocumentProcessor.split_text, the Pinecone store client,    *)
(* the pipeline drivers, the script entry points and the markdown chunker. *)
(*                                                                         *)
(* SpecEmbed runs one embedding call of one embedder variant.              *)
(* SpecSplit applies the fallback splitter to one text.                    *)
(* SpecUpsert runs one call of PineconeManager.upsert_vectors.             *)
(* SpecIndex runs a sequence of PineconeManager.create_index calls.        *)
(* SpecPipeline runs one driver (process_document, process_text_file or    *)
(* query_pinecone) to its exit; SpecUpsertCallers adds the direct callers  *)
(* of upsert_vectors.                                                      *)
(* SpecRerun runs process_document on a store an earlier run has filled.   *)
(* SpecCli runs one script from its command line to its exit code.         *)
(* SpecMarkdown splits one markdown document.                              *)
(***************************************************************************)
EXTENDS Integers, Sequences, FiniteSets, TLC

VARIABLES
    variant,        \* which embedder function the call runs
    texts,          \* the list of input texts of the call
    batch_size,     \* the batch_size argument
    use_mock,       \* the use_mock argument
    hf_model,       \* CustomHuggingFaceEmbeddings.model is not None
    i,              \* the loop variable of the batching loop (0-based offset)
    all_embeddings, \* the accumulating output list
    calls,          \* history: the batches handed to tokenizer/model, in order
    log,            \* history: the messages logged or printed, in order
    callStart,      \* length of log when the embedding call began
    result,         \* the list the call returned
    usedMock,       \* the returned list was built by np.random.uniform
    pc,             \* position in the embedder call
    held,           \* the per-batch tensors the embedder call still holds
    text,           \* split_text: the text argument (a sequence of characters)
    chunk_size,     \* split_text: the chunk_size argument
    chunk_overlap,  \* split_text: the chunk_overlap argument
    chunks,         \* split_text: the returned list of chunks
    spc,            \* position in the split_text call
    index,          \* the store's index of the target name
    stored,         \* the store's records in the target namespace, by id
    now,            \* the time, in seconds
    storeCalls,     \* history: the calls issued to the store, in order
    ulog,           \* history: the log entries of the store client and driver
    up_vectors,     \* upsert_vectors: the vectors argument
    up_namespace,   \* upsert_vectors: the namespace argument
    up_batch,       \* upsert_vectors: the batch_size argument
    up_i,           \* upsert_vectors: the loop variable (0-based offset)
    up_ret,         \* upsert_vectors: the returned value
    upc,            \* position in the upsert_vectors call
    ci_calls,       \* history: the create_index calls, with what each returned
    driver,         \* which pipeline driver runs
    p_pc,           \* position in the pipeline driver
    p_file,         \* the driver's file_path argument
    p_namespace,    \* the driver's namespace argument
    p_chunks,       \* the driver's chunks
    p_embeddings,   \* the driver's embeddings
    p_ret,          \* what the driver returned
    p_failed,       \* history: the stages that failed, in order
    p_prev,         \* history: the chunks of the earlier run the store holds
    script,         \* which script runs
    cpc,            \* position in the script
    argv,           \* the command line
    environ,        \* os.environ's PINECONE_API_KEY
    api_key,        \* the credential the script uses
    key_source,     \* where api_key was taken from
    outcome,        \* what the script's pipeline did
    exit_code,      \* the script's exit code
    md_doc,         \* the markdown splitter's input, a sequence of lines
    md_chunks,      \* the markdown splitter's chunks
    mpc             \* position in the markdown splitter call

embedVars == <<variant, texts, batch_size, use_mock, hf_model, i,
               all_embeddings, calls, log, callStart, result, usedMock, pc, held>>
splitVars == <<text, chunk_size, chunk_overlap, chunks, spc>>
storeVars == <<index, stored, now, storeCalls, ulog>>
upVars == <<up_vectors, up_namespace, up_batch, up_i, up_ret, upc>>
pipeVars == <<ci_calls, driver, p_prev, p_pc, p_file, p_namespace, p_chunks, p_embeddings, p_ret, p_failed>>
mdVars == <<md_doc, md_chunks, mpc>>
cliVars == <<script, cpc, argv, environ, api_key, key_source, outcome, exit_code>>
vars == <<variant, texts, batch_size, use_mock, hf_model, i, all_embeddings,
          calls, log, callStart, result, usedMock, pc, held,
          text, chunk_size, chunk_overlap, chunks, spc,
          index, stored, now, storeCalls, ulog,
          up_vectors, up_namespace, up_batch, up_i, up_ret, upc,
          ci_calls, driver, p_prev, p_pc, p_file, p_namespace, p_chunks, p_embeddings, p_ret,
          p_failed,
          script, cpc, argv, environ, api_key, key_source, outcome, exit_code,
          md_doc, md_chunks, mpc>>

Min(a, b) == IF a < b THEN a ELSE b

(***************************************************************************)
(* Bounds of the model.                                                    *)
(***************************************************************************)
MaxTexts == 3
MaxBatch == 3
MockSeeds == 2

(***************************************************************************)
(* Program constants.                                                      *)
(***************************************************************************)
DefaultBatchSize == 8
MockDim == 1024
E5Dim == 1024

TextValues == {"a", "b"}
BatchSizes == (1..MaxBatch) \cup {DefaultBatchSize}
Variants == {"E5Embedder", "get_embeddings", "integrate_e5",
             "generate_embedding", "CustomHuggingFaceEmbeddings"}

TextLists == UNION {[1..n -> TextValues] : n \in 0..MaxTexts}

(***************************************************************************)
(* The embedding model: one vector per string it is given; the vector of   *)
(* a string depends on that string only.                                   *)
(***************************************************************************)
ModelVector(s) == [kind |-> "model", dim |-> E5Dim, of |-> s]

ModelForward(batch) == [k \in 1..Len(batch) |-> ModelVector(batch[k])]

\* np.random.uniform(-1, 1, dim).tolist(): any of the vectors of that length
MockVector(dim, seed) == [kind |-> "mock", dim |-> dim, of |-> seed]

MockLists(n, dim) ==
    {[k \in 1..n |-> MockVector(dim, m[k])] : m \in [1..n -> 1..MockSeeds]}

\* f"passage: {text}"
E5Format(t) == "passage: " \o t

\* texts[i:i + batch_size] taken one element too far
BatchTexts_overrun(ts, off, B) == SubSeq(ts, off + 1, Min(off + B + 1, Len(ts)))

\* texts[i:i + batch_size]
BatchTexts(ts, off, B) == SubSeq(ts, off + 1, Min(off + B, Len(ts)))

\* [f"passage: {text}" for text in batch_texts]
FormatBatch(batch) == [k \in 1..Len(batch) |-> E5Format(batch[k])]

\* all_embeddings.insert(0, ...) in place of extend: the batches come out reversed
Extend_prepend(all, batch) == batch \o all

\* all_embeddings = batch_embeddings in place of extend
Extend_overwrite(all, batch) == batch

\* all_embeddings.extend(batch_embeddings)
Extend(all, batch) == all \o batch

Invocation(off, batch, ok) == [first |-> off, batch |-> batch, ok |-> ok]

AbsentIndex == [exists |-> FALSE, dimension |-> 0, metric |-> "none", readyAt |-> 0]

StoreIdle ==
    /\ index = AbsentIndex
    /\ stored = {}
    /\ now = 0
    /\ storeCalls = <<>>
    /\ ulog = <<>>

UpsertIdle ==
    /\ up_vectors = <<>>
    /\ up_namespace = "none"
    /\ up_batch = 1
    /\ up_i = 0
    /\ up_ret = "none"
    /\ upc = "idle"

PipeIdle ==
    /\ ci_calls = <<>>
    /\ driver = "none"
    /\ p_pc = "idle"
    /\ p_file = [stem |-> "none", ext |-> "none"]
    /\ p_namespace = "none"
    /\ p_chunks = <<>>
    /\ p_embeddings = <<>>
    /\ p_ret = "none"
    /\ p_failed = <<>>
    /\ p_prev = <<>>

CliIdle ==
    /\ script = "none"
    /\ cpc = "idle"
    /\ argv = [path |-> FALSE, api_key |-> "absent"]
    /\ environ = "unset"
    /\ api_key = "none"
    /\ key_source = "none"
    /\ outcome = [failed |-> FALSE, ret |-> "none"]
    /\ exit_code = -1

MdIdle ==
    /\ md_doc = <<>>
    /\ md_chunks = <<>>
    /\ mpc = "idle"

SplitIdle ==
    /\ text = <<>>
    /\ chunk_size = 1
    /\ chunk_overlap = 0
    /\ chunks = <<>>
    /\ spc = "idle"

InitEmbed ==
    /\ variant \in Variants
    /\ texts \in TextLists
    /\ variant = "generate_embedding" => Len(texts) = 1
    /\ batch_size \in BatchSizes
    /\ variant \notin {"E5Embedder", "get_embeddings"} => batch_size = DefaultBatchSize
    /\ use_mock \in BOOLEAN
    /\ variant \notin {"get_embeddings", "integrate_e5"} => use_mock = FALSE
    /\ hf_model = FALSE
    /\ i = 0
    /\ all_embeddings = <<>>
    /\ calls = <<>>
    /\ log = <<>>
    /\ callStart = 0
    /\ result = <<>>
    /\ usedMock = FALSE
    /\ pc = "call"
    /\ held = {}
    /\ SplitIdle
    /\ StoreIdle /\ UpsertIdle /\ PipeIdle /\ CliIdle /\ MdIdle

(***************************************************************************)
(* E5Embedder.generate_embeddings (final_embedding_solution.py)            *)
(***************************************************************************)
\* self.initialize(): loads tokenizer and model, or logs and re-raises
E5_initialize ==
    /\ variant = "E5Embedder"
    /\ pc = "call"
    /\ \E ok \in BOOLEAN :
        IF ok
        THEN /\ log' = log \o <<"Loading E5 model", "Using device">>
             /\ pc' = "loop"
        ELSE /\ log' = log \o <<"Loading E5 model", "Error initializing E5 model">>
             /\ pc' = "raised"
    /\ i' = 0
    /\ all_embeddings' = <<>>
    /\ UNCHANGED <<held, variant, texts, batch_size, use_mock, hf_model, calls,
                   callStart, result, usedMock>>
    /\ UNCHANGED splitVars
    /\ UNCHANGED <<storeVars, upVars, pipeVars, cliVars, mdVars>>

\* the tensors one iteration binds, in the order it binds them
BatchResources == <<"encoded_input", "model_output", "embeddings", "normalized_embeddings">>

\* an iteration that raises after binding n tensors skips the del statement
\* and torch.cuda.empty_cache() at the end of the loop body
HeldAfterRaise(k, n, cuda) ==
    {[batch |-> k, res |-> BatchResources[j]] : j \in 1..n}
        \cup (IF cuda /\ n >= 1 THEN {[batch |-> k, res |-> "cuda cache"]} ELSE {})

\* one iteration of: for i in range(0, len(texts), batch_size)
E5_batch ==
    /\ variant = "E5Embedder"
    /\ pc = "loop"
    /\ i < Len(texts)
    /\ LET batch_text == FormatBatch(BatchTexts(texts, i, batch_size))
       IN \E ok \in BOOLEAN :
            /\ calls' = Append(calls, Invocation(i, batch_text, ok))
            /\ log' = Append(log, "Processing batch")
            /\ IF ok
               THEN /\ all_embeddings' = Extend(all_embeddings, ModelForward(batch_text))
                    /\ i' = i + batch_size
                    /\ held' = {}
                    /\ pc' = "loop"
               ELSE /\ pc' = "raised"
                    /\ \E n \in 0..Len(BatchResources), cuda \in BOOLEAN :
                         held' = HeldAfterRaise(i \div batch_size + 1, n, cuda)
                    /\ UNCHANGED <<all_embeddings, i>>
    /\ UNCHANGED <<variant, texts, batch_size, use_mock, hf_model,
                   callStart, result, usedMock>>
    /\ UNCHANGED splitVars
    /\ UNCHANGED <<storeVars, upVars, pipeVars, cliVars, mdVars>>

\* the loop is exhausted: log the count and return all_embeddings
E5_return ==
    /\ variant = "E5Embedder"
    /\ pc = "loop"
    /\ i >= Len(texts)
    /\ log' = Append(log, "Generated embeddings")
    /\ result' = all_embeddings
    /\ pc' = "done"
    /\ UNCHANGED <<held, variant, texts, batch_size, use_mock, hf_model, i,
                   all_embeddings, calls, callStart, usedMock>>
    /\ UNCHANGED splitVars
    /\ UNCHANGED <<storeVars, upVars, pipeVars, cliVars, mdVars>>

(***************************************************************************)
(* get_embeddings, batched, with the mock fallback (process_document.py;   *)
(* process_text.py holds the same function)                                *)
(***************************************************************************)
\* if use_mock: log and return one random vector per text
GE_use_mock ==
    /\ variant = "get_embeddings"
    /\ pc = "call"
    /\ use_mock
    /\ log' = Append(log, "Using mock embeddings (dimension=1024)")
    /\ \E r \in MockLists(Len(texts), MockDim) : result' = r
    /\ usedMock' = TRUE
    /\ pc' = "done"
    /\ UNCHANGED <<held, variant, texts, batch_size, use_mock, hf_model, i,
                   all_embeddings, calls, callStart>>
    /\ UNCHANGED splitVars
    /\ UNCHANGED <<storeVars, upVars, pipeVars, cliVars, mdVars>>

\* try: load tokenizer and model; an exception goes to the except clause
GE_load ==
    /\ variant = "get_embeddings"
    /\ pc = "call"
    /\ ~use_mock
    /\ \E ok \in BOOLEAN :
        IF ok
        THEN /\ log' = log \o <<"Loading model", "Using device">>
             /\ pc' = "loop"
        ELSE /\ log' = Append(log, "Loading model")
             /\ pc' = "except"
    /\ i' = 0
    /\ all_embeddings' = <<>>
    /\ UNCHANGED <<held, variant, texts, batch_size, use_mock, hf_model, calls,
                   callStart, result, usedMock>>
    /\ UNCHANGED splitVars
    /\ UNCHANGED <<storeVars, upVars, pipeVars, cliVars, mdVars>>

\* one iteration of: for i in range(0, len(texts), batch_size)
GE_batch ==
    /\ variant = "get_embeddings"
    /\ pc = "loop"
    /\ i < Len(texts)
    /\ LET batch_text == FormatBatch(BatchTexts(texts, i, batch_size))
       IN \E ok \in BOOLEAN :
            /\ calls' = Append(calls, Invocation(i, batch_text, ok))
            /\ log' = Append(log, "Processing batch")
            /\ IF ok
               THEN /\ all_embeddings' = Extend(all_embeddings, ModelForward(batch_text))
                    /\ i' = i + batch_size
                    /\ held' = {}
                    /\ pc' = "loop"
               ELSE /\ pc' = "except"
                    /\ \E n \in 0..Len(BatchResources), cuda \in BOOLEAN :
                         held' = HeldAfterRaise(i \div batch_size + 1, n, cuda)
                    /\ UNCHANGED <<all_embeddings, i>>
    /\ UNCHANGED <<variant, texts, batch_size, use_mock, hf_model,
                   callStart, result, usedMock>>
    /\ UNCHANGED splitVars
    /\ UNCHANGED <<storeVars, upVars, pipeVars, cliVars, mdVars>>

\* after the loop: dim = len(all_embeddings[0]) raises IndexError on an empty
\* list, inside the try; otherwise log and return all_embeddings
GE_return ==
    /\ variant = "get_embeddings"
    /\ pc = "loop"
    /\ i >= Len(texts)
    /\ IF all_embeddings = <<>>
       THEN /\ pc' = "except"
            /\ UNCHANGED <<log, result>>
       ELSE /\ log' = Append(log, "Generated embeddings")
            /\ result' = all_embeddings
            /\ pc' = "done"
    /\ UNCHANGED <<held, variant, texts, batch_size, use_mock, hf_model, i,
                   all_embeddings, calls, callStart, usedMock>>
    /\ UNCHANGED splitVars
    /\ UNCHANGED <<storeVars, upVars, pipeVars, cliVars, mdVars>>

FallbackResults_keepModel(ts, sofar) ==
    {sofar \o m : m \in MockLists(Len(ts) - Len(sofar), MockDim)}

\* [np.random.uniform(-1, 1, 1024).tolist() for _ in texts]: all_embeddings
\* is not looked at
FallbackResults(ts, sofar) == MockLists(Len(ts), MockDim)

\* except Exception: log the error, warn, return one random vector per text
GE_except ==
    /\ variant = "get_embeddings"
    /\ pc = "except"
    /\ log' = log \o <<"Error loading or using the model",
                       "Falling back to mock embeddings">>
    /\ \E r \in FallbackResults(texts, all_embeddings) : result' = r
    /\ usedMock' = TRUE
    /\ held' = {h \in held : h.res = "cuda cache"}
    /\ pc' = "done"
    /\ UNCHANGED <<variant, texts, batch_size, use_mock, hf_model, i,
                   all_embeddings, calls, callStart>>
    /\ UNCHANGED splitVars
    /\ UNCHANGED <<storeVars, upVars, pipeVars, cliVars, mdVars>>

(***************************************************************************)
(* get_embeddings, unbatched, with the mock fallback (integrate_e5.py;     *)
(* pinecone_e5_test.py holds the same function)                            *)
(***************************************************************************)
\* if use_mock: print and return one random vector per text
IE_use_mock ==
    /\ variant = "integrate_e5"
    /\ pc = "call"
    /\ use_mock
    /\ log' = Append(log, "Using mock embeddings (dimension=1024)")
    /\ \E r \in MockLists(Len(texts), MockDim) : result' = r
    /\ usedMock' = TRUE
    /\ pc' = "done"
    /\ UNCHANGED <<held, variant, texts, batch_size, use_mock, hf_model, i,
                   all_embeddings, calls, callStart>>
    /\ UNCHANGED splitVars
    /\ UNCHANGED <<storeVars, upVars, pipeVars, cliVars, mdVars>>

\* try: load, format every text, one tokenizer/model invocation on the whole
\* list, dim = len(embeddings_list[0]), return; any exception goes to except
IE_forward ==
    /\ variant = "integrate_e5"
    /\ pc = "call"
    /\ ~use_mock
    /\ \E loaded \in BOOLEAN, ok \in BOOLEAN :
        LET batch_text == FormatBatch(texts)
        IN IF ~loaded
           THEN /\ log' = Append(log, "Loading model")
                /\ pc' = "except"
                /\ UNCHANGED <<calls, result>>
           ELSE /\ calls' = Append(calls, Invocation(0, batch_text, ok))
                /\ IF ok /\ texts # <<>>
                   THEN /\ log' = log \o <<"Loading model", "Using device",
                                           "Tokenizing inputs", "Generating embeddings",
                                           "Generated embeddings">>
                        /\ result' = ModelForward(batch_text)
                        /\ pc' = "done"
                   ELSE /\ log' = log \o <<"Loading model", "Using device",
                                           "Tokenizing inputs">>
                        /\ pc' = "except"
                        /\ UNCHANGED result
    /\ UNCHANGED <<held, variant, texts, batch_size, use_mock, hf_model, i,
                   all_embeddings, callStart, usedMock>>
    /\ UNCHANGED splitVars
    /\ UNCHANGED <<storeVars, upVars, pipeVars, cliVars, mdVars>>

\* except Exception: print the error and the fallback, return random vectors
IE_except ==
    /\ variant = "integrate_e5"
    /\ pc = "except"
    /\ log' = log \o <<"Error loading or using the model",
                       "Falling back to mock embeddings">>
    /\ \E r \in MockLists(Len(texts), MockDim) : result' = r
    /\ usedMock' = TRUE
    /\ pc' = "done"
    /\ UNCHANGED <<held, variant, texts, batch_size, use_mock, hf_model, i,
                   all_embeddings, calls, callStart>>
    /\ UNCHANGED splitVars
    /\ UNCHANGED <<storeVars, upVars, pipeVars, cliVars, mdVars>>

(***************************************************************************)
(* generate_embedding (custom_query.py): one query text, None on failure   *)
(***************************************************************************)
CQ_generate_embedding ==
    /\ variant = "generate_embedding"
    /\ pc = "call"
    /\ \E loaded \in BOOLEAN, ok \in BOOLEAN :
        LET formatted_text == E5Format(texts[1])
        IN IF ~loaded
           THEN /\ log' = log \o <<"Loading model", "Error generating embedding">>
                /\ pc' = "none"
                /\ UNCHANGED <<calls, result>>
           ELSE /\ calls' = Append(calls, Invocation(0, <<formatted_text>>, ok))
                /\ IF ok
                   THEN /\ log' = log \o <<"Loading model", "Using device",
                                           "Embedding generated successfully">>
                        /\ result' = ModelForward(<<formatted_text>>)
                        /\ pc' = "done"
                   ELSE /\ log' = log \o <<"Loading model", "Using device",
                                           "Error generating embedding">>
                        /\ pc' = "none"
                        /\ UNCHANGED result
    /\ UNCHANGED <<held, variant, texts, batch_size, use_mock, hf_model, i,
                   all_embeddings, callStart, usedMock>>
    /\ UNCHANGED splitVars
    /\ UNCHANGED <<storeVars, upVars, pipeVars, cliVars, mdVars>>

(***************************************************************************)
(* CustomHuggingFaceEmbeddings (pinecone_test.py)                          *)
(***************************************************************************)
\* __init__: load SentenceTransformer; on failure model = None, dimension = 1024
HF_init ==
    /\ variant = "CustomHuggingFaceEmbeddings"
    /\ pc = "call"
    /\ \E ok \in BOOLEAN :
        IF ok
        THEN /\ hf_model' = TRUE
             /\ log' = Append(log, "Loaded model with dimension")
        ELSE /\ hf_model' = FALSE
             /\ log' = log \o <<"Error loading model",
                                "Using mock embeddings model for testing">>
    /\ pc' = "ready"
    /\ UNCHANGED <<held, variant, texts, batch_size, use_mock, i, all_embeddings,
                   calls, callStart, result, usedMock>>
    /\ UNCHANGED splitVars
    /\ UNCHANGED <<storeVars, upVars, pipeVars, cliVars, mdVars>>

\* embed_documents(texts): model.encode(texts) when a model is loaded and
\* encode succeeds; otherwise one random vector of self.dimension per text
HF_embed_documents ==
    /\ variant = "CustomHuggingFaceEmbeddings"
    /\ pc = "ready"
    /\ callStart' = Len(log)
    /\ \E ok \in BOOLEAN, r \in MockLists(Len(texts), IF hf_model THEN E5Dim ELSE MockDim) :
        IF hf_model
        THEN /\ calls' = Append(calls, Invocation(0, texts, ok))
             /\ IF ok
                THEN /\ result' = ModelForward(texts)
                     /\ UNCHANGED <<log, usedMock>>
                ELSE /\ log' = Append(log, "Error during document embedding")
                     /\ result' = r
                     /\ usedMock' = TRUE
        ELSE /\ result' = r
             /\ usedMock' = TRUE
             /\ UNCHANGED <<calls, log>>
    /\ pc' = "done"
    /\ UNCHANGED <<held, variant, texts, batch_size, use_mock, hf_model, i,
                   all_embeddings>>
    /\ UNCHANGED splitVars
    /\ UNCHANGED <<storeVars, upVars, pipeVars, cliVars, mdVars>>

NextEmbed ==
    \/ E5_initialize
    \/ E5_batch
    \/ E5_return
    \/ GE_use_mock
    \/ GE_load
    \/ GE_batch
    \/ GE_return
    \/ GE_except
    \/ IE_use_mock
    \/ IE_forward
    \/ IE_except
    \/ CQ_generate_embedding
    \/ HF_init
    \/ HF_embed_documents

SpecEmbed == InitEmbed /\ [][NextEmbed]_vars

(***************************************************************************)
(* generate_embeddings as a function of its arguments, when no tokenizer   *)
(* or model call raises: the loop of E5_batch run to its end.              *)
(***************************************************************************)
RECURSIVE EmbedFrom(_, _, _, _)
EmbedFrom(ts, off, B, acc) ==
    IF off >= Len(ts)
    THEN acc
    ELSE EmbedFrom(ts, off + B, B,
                   Extend(acc, ModelForward(FormatBatch(BatchTexts(ts, off, B)))))

generate_embeddings(ts, B) == EmbedFrom(ts, 0, B, <<>>)

Batched == variant \in {"E5Embedder", "get_embeddings"}

\* the call returned the vectors the model produced
ReturnedModelVectors == pc = "done" /\ ~usedMock

\* invocation c was handed the text at (1-based) position k of the input
Covers(c, k) == c.first < k /\ k <= c.first + Len(c.batch)

InvocationsOf(k) == {j \in 1..Len(calls) : Covers(calls[j], k)}

(***************************************************************************)
(* C1: when the batched embedder returns model vectors, the returned list  *)
(* is as long as the input and its k-th vector is the model's vector of    *)
(* the k-th input text (in its "passage: " form): nothing is reordered,    *)
(* dropped or duplicated by batching.                                      *)
(***************************************************************************)
C1_OutputMatchesInput ==
    (Batched /\ ReturnedModelVectors) =>
        /\ Len(result) = Len(texts)
        /\ \A k \in 1..Len(texts) : result[k] = ModelVector(E5Format(texts[k]))

C1_Witness ==
    /\ variant = "E5Embedder"
    /\ pc = "done"
    /\ Len(texts) = 3
    /\ Len(calls) = 3
    /\ texts[1] # texts[2]

(***************************************************************************)
(* C2 as stated: in every finished run of the batched embedder each model  *)
(* invocation receives between 1 and batch_size texts and every input text *)
(* is passed to the model in exactly one invocation.                       *)
(***************************************************************************)
C2_Original ==
    (Batched /\ pc = "done") =>
        /\ \A j \in 1..Len(calls) :
              Len(calls[j].batch) >= 1 /\ Len(calls[j].batch) <= batch_size
        /\ \A k \in 1..Len(texts) : Cardinality(InvocationsOf(k)) = 1

(***************************************************************************)
(* C2 amended: at every point of a run of the batched embedder each model  *)
(* invocation has received between 1 and batch_size texts and every input  *)
(* text has been passed in at most one invocation; it has been passed in   *)
(* exactly one when the call returns model vectors (no mock substitution). *)
(***************************************************************************)
C2_Amended ==
    Batched =>
        /\ \A j \in 1..Len(calls) :
              Len(calls[j].batch) >= 1 /\ Len(calls[j].batch) <= batch_size
        /\ \A k \in 1..Len(texts) : Cardinality(InvocationsOf(k)) <= 1
        /\ ReturnedModelVectors =>
              \A k \in 1..Len(texts) : Cardinality(InvocationsOf(k)) = 1

C2_Witness ==
    /\ variant = "get_embeddings"
    /\ ReturnedModelVectors
    /\ batch_size = 2
    /\ Len(texts) = 3
    /\ Len(calls) = 2
    /\ Len(calls[2].batch) = 1

(***************************************************************************)
(* C3: the list E5Embedder.generate_embeddings returns for any batch size  *)
(* is the list it returns for batch_size = 1 and for batch_size = 8 on the *)
(* same texts.                                                             *)
(***************************************************************************)
C3_BatchSizeIrrelevant ==
    (variant = "E5Embedder" /\ pc = "done") =>
        /\ result = generate_embeddings(texts, 1)
        /\ result = generate_embeddings(texts, DefaultBatchSize)

C3_Witness ==
    /\ variant = "E5Embedder"
    /\ pc = "done"
    /\ batch_size = 2
    /\ Len(texts) = 3
    /\ texts[1] # texts[3]

(***************************************************************************)
(* C4: every string handed to the embedding model, by any embedder, is     *)
(* "passage: " followed by the input text at that position.                *)
(***************************************************************************)
C4_EveryTextPrefixed ==
    \A j \in 1..Len(calls) :
        \A k \in 1..Len(calls[j].batch) :
            calls[j].batch[k] = E5Format(texts[calls[j].first + k])

MockAnnouncements == {"Using mock embeddings (dimension=1024)",
                      "Falling back to mock embeddings"}

(***************************************************************************)
(* C5: a call that returns mock vectors has logged, during the call, a     *)
(* message announcing the substitution, and returns one mock vector of     *)
(* dimension 1024 per input text.                                          *)
(***************************************************************************)
C5_MockIsAnnounced ==
    (pc = "done" /\ usedMock /\ result # <<>>) =>
        /\ \E m \in (callStart + 1)..Len(log) : log[m] \in MockAnnouncements
        /\ Len(result) = Len(texts)
        /\ \A k \in 1..Len(result) : result[k].kind = "mock" /\ result[k].dim = MockDim


(***************************************************************************)
(* DocumentProcessor.split_text, the fallback taken on ImportError         *)
(* (final_embedding_solution.py).  A text is a sequence of characters.     *)
(***************************************************************************)
MaxLen == 7
MaxChunkSize == 3
MaxOverlap == 1

SplitChars == {"a", "b", " ", "\n"}
ScenarioText == <<"A", ".", "\n", "\n", "B", ".">>
SplitTexts == UNION {[1..n -> SplitChars] : n \in 0..MaxLen} \cup {ScenarioText}
ChunkSizes == (1..MaxChunkSize) \cup {100}
ChunkOverlaps == 0..MaxOverlap

\* the characters \s matches
IsSpace(c) == c \in {" ", "\n"}

Max(S) == CHOOSE x \in S : \A y \in S : y <= x

\* where a match of \n\s*\n starting at p ends (0: no match starts at p);
\* \s* is greedy, so the match runs to the last \n of the whitespace run
MatchEnd(t, p) ==
    IF t[p] # "\n"
    THEN 0
    ELSE LET ends == {j \in (p + 1)..Len(t) :
                         t[j] = "\n" /\ \A k \in (p + 1)..(j - 1) : IsSpace(t[k])}
         IN IF ends = {} THEN 0 ELSE Max(ends)

RECURSIVE SplitFrom(_, _, _)
SplitFrom(t, p, start) ==
    IF p > Len(t)
    THEN <<SubSeq(t, start, Len(t))>>
    ELSE LET e == MatchEnd(t, p)
         IN IF e = 0
            THEN SplitFrom(t, p + 1, start)
            ELSE <<SubSeq(t, start, p - 1)>> \o SplitFrom(t, e + 1, e + 1)

\* re.split(r'\n\s*\n', text)
re_split(t) == SplitFrom(t, 1, 1)

RECURSIVE lstrip(_)
lstrip(s) == IF s # <<>> /\ IsSpace(Head(s)) THEN lstrip(Tail(s)) ELSE s

RECURSIVE rstrip(_)
rstrip(s) ==
    IF s # <<>> /\ IsSpace(s[Len(s)]) THEN rstrip(SubSeq(s, 1, Len(s) - 1)) ELSE s

\* the paragraph left as it is
strip_none(s) == s

\* para.strip()
strip(s) == rstrip(lstrip(s))

RECURSIVE JoinWith(_, _)
JoinWith(sep, ps) ==
    IF ps = <<>> THEN <<>>
    ELSE IF Len(ps) = 1 THEN ps[1]
    ELSE ps[1] \o sep \o JoinWith(sep, Tail(ps))

\* "\n".join(current_chunk)
Join_newline(ps) == JoinWith(<<"\n">>, ps)

\* "\n\n".join(current_chunk)
Join(ps) == JoinWith(<<"\n", "\n">>, ps)

RECURSIVE SumLen(_)
\* sum(len(p) for p in current_chunk)
SumLen(ps) == IF ps = <<>> THEN 0 ELSE Len(Head(ps)) + SumLen(Tail(ps))

\* the last paragraph kept whatever chunk_overlap is
OverlapParas_always(current_chunk, ov) ==
    SubSeq(current_chunk, Len(current_chunk), Len(current_chunk))

\* current_chunk[-1:] if chunk_overlap > 0 else []
OverlapParas(current_chunk, ov) ==
    IF ov > 0
    THEN SubSeq(current_chunk, Len(current_chunk), Len(current_chunk))
    ELSE <<>>

\* >= in place of >
Exceeds_orEqual(current_size, para_size, cs) == current_size + para_size >= cs

\* current_size + para_size > chunk_size
Exceeds(current_size, para_size, cs) == current_size + para_size > cs

\* the body of: for para in paragraphs
LoopBody(st, raw, cs, ov) ==
    LET para == strip(raw)
        para_size == Len(para)
        flush == Exceeds(st.current_size, para_size, cs) /\ st.current_chunk # <<>>
        kept == IF flush THEN OverlapParas(st.current_chunk, ov) ELSE st.current_chunk
    IN IF para = <<>>
       THEN st
       ELSE [chunks |-> IF flush
                        THEN Append(st.chunks, Join(st.current_chunk))
                        ELSE st.chunks,
             current_chunk |-> Append(kept, para),
             current_size |-> (IF flush THEN SumLen(kept) ELSE st.current_size)
                              + para_size]

RECURSIVE Loop(_, _, _, _, _)
Loop(st, paragraphs, k, cs, ov) ==
    IF k > Len(paragraphs)
    THEN st
    ELSE Loop(LoopBody(st, paragraphs[k], cs, ov), paragraphs, k + 1, cs, ov)

split_text_noFinalFlush(t, cs, ov) ==
    Loop([chunks |-> <<>>, current_chunk |-> <<>>, current_size |-> 0],
         re_split(t), 1, cs, ov).chunks

\* the except ImportError branch of split_text
split_text(t, cs, ov) ==
    LET st == Loop([chunks |-> <<>>, current_chunk |-> <<>>, current_size |-> 0],
                   re_split(t), 1, cs, ov)
    IN IF st.current_chunk # <<>>
       THEN Append(st.chunks, Join(st.current_chunk))
       ELSE st.chunks

EmbedIdle ==
    /\ variant = "none"
    /\ texts = <<>>
    /\ batch_size = DefaultBatchSize
    /\ use_mock = FALSE
    /\ hf_model = FALSE
    /\ i = 0
    /\ all_embeddings = <<>>
    /\ calls = <<>>
    /\ log = <<>>
    /\ callStart = 0
    /\ result = <<>>
    /\ usedMock = FALSE
    /\ pc = "idle"
    /\ held = {}

InitSplit ==
    /\ text \in SplitTexts
    /\ chunk_size \in ChunkSizes
    /\ chunk_overlap \in ChunkOverlaps
    /\ chunks = <<>>
    /\ spc = "call"
    /\ EmbedIdle
    /\ StoreIdle /\ UpsertIdle /\ PipeIdle /\ CliIdle /\ MdIdle

\* DocumentProcessor.split_text(text, chunk_size, chunk_overlap) returns
SplitText ==
    /\ spc = "call"
    /\ chunks' = split_text(text, chunk_size, chunk_overlap)
    /\ spc' = "done"
    /\ UNCHANGED <<text, chunk_size, chunk_overlap>>
    /\ UNCHANGED embedVars
    /\ UNCHANGED <<storeVars, upVars, pipeVars, cliVars, mdVars>>

NextSplit == SplitText

SpecSplit == InitSplit /\ [][NextSplit]_vars



RECURSIVE NonBlank(_)
NonBlank(ps) ==
    IF ps = <<>> THEN <<>>
    ELSE IF rstrip(lstrip(Head(ps))) = <<>> THEN NonBlank(Tail(ps))
    ELSE <<rstrip(lstrip(Head(ps)))>> \o NonBlank(Tail(ps))

\* the stripped non-blank paragraphs of a text, in order
Paragraphs(t) == NonBlank(SplitFrom(t, 1, 1))

RECURSIVE Flatten(_)
Flatten(ss) == IF ss = <<>> THEN <<>> ELSE Head(ss) \o Flatten(Tail(ss))

\* the paragraphs of the chunks, read in output order
ChunkParagraphs == Flatten([c \in 1..Len(chunks) |-> Paragraphs(chunks[c])])

\* the same, leaving out the first paragraph of every chunk after the first
ChunkParagraphsLessOverlap ==
    Flatten([c \in 1..Len(chunks) |->
                IF c = 1 THEN Paragraphs(chunks[c]) ELSE Tail(Paragraphs(chunks[c]))])

Last(s) == s[Len(s)]

(***************************************************************************)
(* C6: with chunk_overlap < chunk_size the fallback splitter returns no    *)
(* empty chunk and no chunk made only of whitespace.                       *)
(***************************************************************************)
C6_NoEmptyChunk ==
    (spc = "done" /\ chunk_overlap < chunk_size) =>
        \A c \in 1..Len(chunks) : \E p \in 1..Len(chunks[c]) : ~IsSpace(chunks[c][p])

C6_Witness ==
    /\ spc = "done"
    /\ chunk_overlap < chunk_size
    /\ Len(chunks) >= 2
    /\ \E k \in 1..Len(SplitFrom(text, 1, 1)) :
          /\ SplitFrom(text, 1, 1)[k] # <<>>
          /\ \A p \in 1..Len(SplitFrom(text, 1, 1)[k]) : IsSpace(SplitFrom(text, 1, 1)[k][p])

(***************************************************************************)
(* C7: the chunks, read in order, hold every non-blank paragraph of the    *)
(* input in document order: with chunk_overlap = 0 their paragraphs are    *)
(* exactly the input's stripped non-blank paragraphs, and with             *)
(* chunk_overlap > 0 they are that sequence once the repeated first        *)
(* paragraph of every chunk after the first is left out.                   *)
(***************************************************************************)
C7_ParagraphsPreserved ==
    spc = "done" =>
        /\ chunk_overlap = 0 => ChunkParagraphs = Paragraphs(text)
        /\ chunk_overlap > 0 => ChunkParagraphsLessOverlap = Paragraphs(text)

C7_Witness ==
    /\ spc = "done"
    /\ chunk_overlap > 0
    /\ Len(Paragraphs(text)) = 3
    /\ Len(chunks) = 3
    /\ Paragraphs(text)[1] # Paragraphs(text)[2]

(***************************************************************************)
(* C8: with chunk_overlap > 0 every chunk after the first begins with the  *)
(* last paragraph of the chunk before it and repeats nothing else; with    *)
(* chunk_overlap = 0 no paragraph occurrence appears in two chunks.        *)
(***************************************************************************)
C8_OverlapByOneParagraph ==
    spc = "done" =>
        /\ chunk_overlap > 0 =>
              /\ \A c \in 2..Len(chunks) :
                    Head(Paragraphs(chunks[c])) = Last(Paragraphs(chunks[c - 1]))
              /\ Len(ChunkParagraphs) =
                    Len(Paragraphs(text)) + (IF chunks = <<>> THEN 0 ELSE Len(chunks) - 1)
        /\ chunk_overlap = 0 =>
              Len(ChunkParagraphs) = Len(Paragraphs(text))

C8_Witness ==
    /\ spc = "done"
    /\ chunk_overlap > 0
    /\ chunk_size = 2
    /\ Len(chunks) = 2
    /\ Len(Paragraphs(chunks[1])) = 2
    /\ Len(Paragraphs(chunks[2])) = 2

(***************************************************************************)
(* C9: every chunk is at most chunk_size characters long, the "\n\n"       *)
(* joiners counted, unless it is a single paragraph longer than            *)
(* chunk_size.  Stated for the pairs with chunk_overlap < chunk_size.      *)
(***************************************************************************)
C9_ChunkWithinSize ==
    (spc = "done" /\ chunk_overlap < chunk_size) =>
        \A c \in 1..Len(chunks) :
            \/ Len(chunks[c]) <= chunk_size
            \/ Len(Paragraphs(chunks[c])) = 1

(***************************************************************************)
(* C10: "A.\n\nB." gives the one chunk "A.\n\nB." for chunk_size = 100,    *)
(* chunk_overlap = 0 and the chunks "A.", "B." for chunk_size = 2,         *)
(* chunk_overlap = 0; with chunk_overlap = 0 the two paragraphs of a       *)
(* two-paragraph text share a chunk exactly when their lengths sum to at   *)
(* most chunk_size.                                                        *)
(***************************************************************************)
C10_TwoParagraphs ==
    (spc = "done" /\ chunk_overlap = 0) =>
        /\ (text = ScenarioText /\ chunk_size = 100) => chunks = <<ScenarioText>>
        /\ (text = ScenarioText /\ chunk_size = 2) => chunks = <<<<"A", ".">>, <<"B", ".">>>>
        /\ Len(Paragraphs(text)) = 2 =>
              LET p == Paragraphs(text)
              IN IF Len(p[1]) + Len(p[2]) <= chunk_size
                 THEN chunks = <<p[1] \o <<"\n", "\n">> \o p[2]>>
                 ELSE chunks = <<p[1], p[2]>>

C10_Witness ==
    /\ spc = "done"
    /\ chunk_overlap = 0
    /\ text = ScenarioText
    /\ chunk_size = 2
    /\ chunks = <<<<"A", ".">>, <<"B", ".">>>>

(***************************************************************************)
(* C11 as stated: an empty document gives no chunk, and a non-empty        *)
(* document without a paragraph break gives exactly one chunk whose        *)
(* content is the whole input text, for every chunk_size and               *)
(* chunk_overlap.                                                          *)
(***************************************************************************)
NoParagraphBreak(t) == Len(SplitFrom(t, 1, 1)) = 1

C11_Original ==
    spc = "done" =>
        /\ text = <<>> => chunks = <<>>
        /\ (text # <<>> /\ NoParagraphBreak(text)) => chunks = <<text>>

(***************************************************************************)
(* C11, amended: an empty document gives no chunk; a non-empty document    *)
(* without a paragraph break gives exactly one chunk, the input text       *)
(* without its leading and trailing whitespace, and gives no chunk when    *)
(* the text is whitespace only, for every chunk_size and chunk_overlap.    *)
(***************************************************************************)
C11_Amended ==
    spc = "done" =>
        /\ text = <<>> => chunks = <<>>
        /\ (text # <<>> /\ NoParagraphBreak(text)) =>
              LET body == rstrip(lstrip(text))
              IN chunks = IF body = <<>> THEN <<>> ELSE <<body>>

C11_Witness ==
    /\ spc = "done"
    /\ text = <<" ", "a", "b", "\n">>
    /\ NoParagraphBreak(text)
    /\ chunk_size = 1
    /\ chunks = <<<<"a", "b">>>>


(***************************************************************************)
(* The vector store, as its client sees it.  The index of the target name  *)
(* is absent, initializing (created, readyAt not reached) or ready; only   *)
(* a ready index accepts upsert and query, and any call may fail for a     *)
(* reason of the store's own.                                              *)
(***************************************************************************)
MaxRecords == 4
MaxUpBatch == 3
MaxReadyDelay == 11
UpsertDefaultBatch == 100
IndexWait == 10

Namespaces == {"ns1", "ns2"}
Metrics == {"cosine", "euclidean"}

IndexState ==
    IF ~index.exists THEN "absent"
    ELSE IF now < index.readyAt THEN "initializing"
    ELSE "ready"

ReadyIndex == [exists |-> TRUE, dimension |-> E5Dim, metric |-> "cosine", readyAt |-> 0]

list_indexes_stale == {"documents"}

\* pc.list_indexes().names()
list_indexes == IF index.exists THEN {"documents"} ELSE {}

Upserted_append(st, ns, batch) ==
    st \cup {[namespace |-> ns, record |-> batch[k]] : k \in 1..Len(batch)}

\* index.upsert: a record replaces the stored record of the same id
Upserted(st, ns, batch) ==
    LET ids == {batch[k].id : k \in 1..Len(batch)}
        last(id) == CHOOSE k \in 1..Len(batch) :
                        /\ batch[k].id = id
                        /\ \A m \in (k + 1)..Len(batch) : batch[m].id # id
    IN {r \in st : ~(r.namespace = ns /\ r.record.id \in ids)}
       \cup {[namespace |-> ns, record |-> batch[last(id)]] : id \in ids}

LogEntry(level, msg, args) == [level |-> level, msg |-> msg, args |-> args]

NoArgs == [none |-> "none"]

(***************************************************************************)
(* PineconeManager.upsert_vectors                                          *)
(***************************************************************************)
RecordPool == {[id |-> "r1", values |-> <<1>>], [id |-> "r2", values |-> <<2>>]}

RecordLists == UNION {[1..n -> RecordPool] : n \in 0..MaxRecords}

UpBatchSizes == (1..MaxUpBatch) \cup {UpsertDefaultBatch}

Slice_overrun(v, off, B) == SubSeq(v, off + 1, Min(off + B + 1, Len(v)))

\* vectors[i:i + batch_size]
Slice(v, off, B) == SubSeq(v, off + 1, Min(off + B, Len(v)))

InitUpsert ==
    /\ EmbedIdle /\ SplitIdle /\ PipeIdle /\ CliIdle /\ MdIdle
    /\ index \in {ReadyIndex, [ReadyIndex EXCEPT !.readyAt = 1]}
    /\ stored = {}
    /\ now = 0
    /\ storeCalls = <<>>
    /\ ulog = <<>>
    /\ up_vectors \in RecordLists
    /\ up_namespace \in Namespaces
    /\ up_batch \in UpBatchSizes
    /\ up_i = 0
    /\ up_ret = "none"
    /\ upc = "call"

\* the try is entered and the loop variable takes its first value
UV_call ==
    /\ upc = "call"
    /\ ulog' = Append(ulog, LogEntry("info", "Upserting {} vectors to namespace '{}'...",
                                     [count |-> Len(up_vectors), namespace |-> up_namespace]))
    /\ up_i' = 0
    /\ upc' = "loop"
    /\ UNCHANGED <<index, stored, now, storeCalls>>
    /\ UNCHANGED <<up_vectors, up_namespace, up_batch, up_ret>>
    /\ UNCHANGED <<mdVars, embedVars, splitVars, pipeVars, cliVars>>

AfterStoreCall_swallow(ok) == "loop"

\* a store call that raises leaves the loop for the except clause
AfterStoreCall(ok) == IF ok THEN "loop" ELSE "except"

\* f"Upserting batch {i//batch_size + 1}/{len(vectors)//batch_size + 1} with {len(batch)} vectors"
BatchLogEntry(batch) ==
    LogEntry("info", "Upserting batch {}/{} with {} vectors",
             [batch |-> (up_i \div up_batch) + 1,
              total |-> (Len(up_vectors) \div up_batch) + 1,
              count |-> Len(batch)])

\* index.upsert(vectors=batch, namespace=namespace), served by the store or not
index_upsert(batch, ok) ==
    /\ storeCalls' = Append(storeCalls, [op |-> "upsert", vectors |-> batch,
                                         namespace |-> up_namespace,
                                         state |-> IndexState, ok |-> ok])
    /\ stored' = IF ok THEN Upserted(stored, up_namespace, batch) ELSE stored

\* one iteration of the loop: slice, log, index.upsert
UV_batch ==
    /\ upc = "loop"
    /\ up_i < Len(up_vectors)
    /\ \E accepted \in BOOLEAN :
         LET batch == Slice(up_vectors, up_i, up_batch)
             ok == accepted /\ IndexState = "ready"
         IN /\ ulog' = Append(ulog, BatchLogEntry(batch))
            /\ index_upsert(batch, ok)
            /\ upc' = AfterStoreCall(ok)
            /\ up_i' = IF upc' = "loop" THEN up_i + up_batch ELSE up_i
    /\ UNCHANGED <<index, now>>
    /\ UNCHANGED <<up_vectors, up_namespace, up_batch, up_ret>>
    /\ UNCHANGED <<mdVars, embedVars, splitVars, pipeVars, cliVars>>

\* the loop is over
UV_return ==
    /\ upc = "loop"
    /\ up_i >= Len(up_vectors)
    /\ ulog' = Append(ulog, LogEntry("info", "Upsert completed!", NoArgs))
    /\ up_ret' = "True"
    /\ upc' = "done"
    /\ UNCHANGED <<index, stored, now, storeCalls>>
    /\ UNCHANGED <<up_vectors, up_namespace, up_batch, up_i>>
    /\ UNCHANGED <<mdVars, embedVars, splitVars, pipeVars, cliVars>>

\* except Exception as e
UV_except ==
    /\ upc = "except"
    /\ ulog' = Append(ulog, LogEntry("error", "Error upserting vectors: {}", [e |-> "StoreError"]))
    /\ up_ret' = "False"
    /\ upc' = "done"
    /\ UNCHANGED <<index, stored, now, storeCalls>>
    /\ UNCHANGED <<up_vectors, up_namespace, up_batch, up_i>>
    /\ UNCHANGED <<mdVars, embedVars, splitVars, pipeVars, cliVars>>

NextUpsert == UV_call \/ UV_batch \/ UV_return \/ UV_except

SpecUpsert == InitUpsert /\ [][NextUpsert]_vars


UpsertCalls == SelectSeq(storeCalls, LAMBDA c : c.op = "upsert")

RECURSIVE Concat(_)
Concat(ss) == IF ss = <<>> THEN <<>> ELSE Head(ss) \o Concat(Tail(ss))

CallVectors == [k \in 1..Len(UpsertCalls) |-> UpsertCalls[k].vectors]

CeilDiv(n, d) == (n + d - 1) \div d

NoCallFailed == \A k \in 1..Len(storeCalls) : storeCalls[k].ok

(***************************************************************************)
(* C12: for every record list of length n and every batch_size >= 1, when  *)
(* no store call fails upsert_vectors issues exactly ceil(n / batch_size)  *)
(* store upsert calls (none when n = 0), each with 1 to batch_size         *)
(* records, whose concatenation in call order is the input list, all into  *)
(* the given namespace, and returns True.                                  *)
(***************************************************************************)
C12_BatchedUpsert ==
    (upc = "done" /\ NoCallFailed) =>
        /\ Len(UpsertCalls) = CeilDiv(Len(up_vectors), up_batch)
        /\ \A k \in 1..Len(UpsertCalls) :
              /\ Len(UpsertCalls[k].vectors) \in 1..up_batch
              /\ UpsertCalls[k].namespace = up_namespace
        /\ Concat(CallVectors) = up_vectors
        /\ up_ret = "True"

C12_Witness ==
    /\ upc = "done"
    /\ NoCallFailed
    /\ Len(up_vectors) = 4
    /\ up_batch = 3
    /\ Len(UpsertCalls) = 2
    /\ Len(UpsertCalls[2].vectors) = 1
    /\ up_ret = "True"


FailedUpserts == {k \in 1..Len(UpsertCalls) : ~UpsertCalls[k].ok}

\* the records of the batches before batch k, as the store holds them
WrittenBefore(k) ==
    Upserted({}, up_namespace, Concat([m \in 1..(k - 1) |-> UpsertCalls[m].vectors]))

ErrorEntries == {k \in 1..Len(ulog) : ulog[k].level = "error"}

Identifies(report, k, n) ==
    /\ "batch" \in DOMAIN report
    /\ "count" \in DOMAIN report
    /\ report.batch = k
    /\ report.count = n

C14_FailureNamesBatch ==
    (upc = "done" /\ FailedUpserts # {}) =>
        LET k == Len(UpsertCalls)
            n == Len(UpsertCalls[k].vectors)
        IN \/ \E e \in ErrorEntries : Identifies(ulog[e].args, k, n)
           \/ up_ret \notin {"True", "False"} /\ Identifies(up_ret, k, n)


(***************************************************************************)
(* PineconeManager.create_index                                            *)
(***************************************************************************)
MaxCreateCalls == 3

Dimensions == {E5Dim, E5Dim \div 2}

IndexListed_never == FALSE

\* index_name in self.list_indexes()
IndexListed == "documents" \in list_indexes

CreateCall(dimension, metric, ret) ==
    [dimension |-> dimension, metric |-> metric, ret |-> ret, before |-> index]

\* one call create_index("documents", dimension, metric); listed and accepted
\* say whether the store serves the list and the create call, delay is the
\* time the store takes to make the new index ready
create_index(dimension, metric, listed, accepted, delay) ==
    LET listCall == [op |-> "list_indexes", state |-> IndexState, ok |-> listed]
        createCall == [op |-> "create_index", dimension |-> dimension, metric |-> metric,
                       state |-> IndexState, ok |-> accepted]
    IN IF ~listed
       THEN /\ storeCalls' = Append(storeCalls, listCall)
            /\ ci_calls' = Append(ci_calls, CreateCall(dimension, metric, "raised"))
            /\ UNCHANGED <<index, now, ulog>>
       ELSE IF IndexListed
       THEN /\ storeCalls' = Append(storeCalls, listCall)
            /\ ulog' = Append(ulog, LogEntry("info", "Index {} already exists", NoArgs))
            /\ ci_calls' = Append(ci_calls, CreateCall(dimension, metric, "False"))
            /\ UNCHANGED <<index, now>>
       ELSE /\ storeCalls' = storeCalls \o <<listCall, createCall>>
            /\ ulog' = Append(ulog, LogEntry("info", "Creating index: {}, dimension: {}, metric: {}",
                                             [dimension |-> dimension, metric |-> metric]))
            /\ IF accepted
               THEN /\ index' = [exists |-> TRUE, dimension |-> dimension,
                                 metric |-> metric, readyAt |-> now + delay]
                    /\ now' = now + IndexWait
                    /\ ci_calls' = Append(ci_calls, CreateCall(dimension, metric, "True"))
               ELSE /\ ci_calls' = Append(ci_calls, CreateCall(dimension, metric, "raised"))
                    /\ UNCHANGED <<index, now>>

InitIndex ==
    /\ EmbedIdle /\ SplitIdle /\ UpsertIdle /\ PipeIdle /\ CliIdle /\ MdIdle
    /\ index \in {AbsentIndex} \cup
                 {[exists |-> TRUE, dimension |-> d, metric |-> m, readyAt |-> 0] :
                      d \in Dimensions, m \in Metrics}
    /\ stored = {}
    /\ now = 0
    /\ storeCalls = <<>>
    /\ ulog = <<>>

CI_call ==
    /\ Len(ci_calls) < MaxCreateCalls
    /\ \E dimension \in Dimensions, metric \in Metrics,
          listed \in BOOLEAN, accepted \in BOOLEAN, delay \in 0..MaxReadyDelay :
            create_index(dimension, metric, listed, accepted, delay)
    /\ UNCHANGED stored
    /\ UNCHANGED <<driver, p_prev, p_pc, p_file, p_namespace, p_chunks, p_embeddings, p_ret, p_failed>>
    /\ UNCHANGED <<mdVars, embedVars, splitVars, upVars, cliVars>>

NextIndex == CI_call

SpecIndex == InitIndex /\ [][NextIndex]_vars

CreateCalls == SelectSeq(storeCalls, LAMBDA c : c.op = "create_index")

(***************************************************************************)
(* C15 as stated: create_index creates the index with the given dimension  *)
(* and metric when the name is absent and is a no-op that does not raise   *)
(* when it is present: after any sequence of calls with the same name the  *)
(* store holds exactly one index of that name, with the dimension and      *)
(* metric of the first call, and at most one store create call was issued. *)
(***************************************************************************)
C15_Original ==
    ci_calls # <<>> =>
        /\ index.exists
        /\ index.dimension = ci_calls[1].dimension
        /\ index.metric = ci_calls[1].metric
        /\ Len(CreateCalls) <= 1
        /\ \A k \in 1..Len(ci_calls) :
              ci_calls[k].before.exists => ci_calls[k].ret = "False"

(***************************************************************************)
(* C15, amended.  When no store call fails, after any sequence of calls    *)
(* with the same name the store holds exactly one index of that name: the  *)
(* index it held before the first call, untouched and without a create     *)
(* call, when the name was present then, and otherwise an index with the   *)
(* dimension and metric of the first call, made by the one create call     *)
(* issued; no call raises.  Whether or not store calls fail, a create      *)
(* call is issued only while the name is absent and at most one succeeds.  *)
(***************************************************************************)
C15_Amended ==
    /\ (ci_calls # <<>> /\ NoCallFailed) =>
          /\ index.exists
          /\ \A k \in 1..Len(ci_calls) : ci_calls[k].ret # "raised"
          /\ IF ci_calls[1].before.exists
             THEN index = ci_calls[1].before /\ CreateCalls = <<>>
             ELSE /\ index.dimension = ci_calls[1].dimension
                  /\ index.metric = ci_calls[1].metric
                  /\ Len(CreateCalls) = 1
    /\ \A k \in 1..Len(CreateCalls) : CreateCalls[k].state = "absent"
    /\ Cardinality({k \in 1..Len(CreateCalls) : CreateCalls[k].ok}) <= 1

C15_Witness ==
    /\ Len(ci_calls) = 3
    /\ NoCallFailed
    /\ ~ci_calls[1].before.exists
    /\ ci_calls[1].dimension # ci_calls[2].dimension
    /\ ci_calls[1].metric # ci_calls[3].metric
    /\ ci_calls[2].ret = "False"
    /\ index.dimension = ci_calls[1].dimension
    /\ Len(CreateCalls) = 1


(***************************************************************************)
(* The pipeline drivers: process_document of final_embedding_solution.py,  *)
(* process_document of process_document.py and process_text_file of        *)
(* process_text.py.                                                        *)
(***************************************************************************)
Drivers == {"final_embedding_solution", "process_document", "process_text", "custom_query"}

DocDrivers == {"process_document", "process_text"}

Files == [stem : {"doc"}, ext : {".txt", ".TXT", ".csv"}]

SupportedExts == {".txt", ".md", ".docx", ".pdf"}

\* ext.lower()
lower(ext) == IF ext = ".TXT" THEN ".txt" ELSE ext

\* file_path as the caller gave it (the model's paths have no directory part)
file_path(f) == f.stem \o f.ext

\* os.path.basename(file_path)
basename(f) == f.stem \o f.ext

\* os.path.splitext(filename)[0]
doc_id(f) == f.stem

\* f"{doc_id}_chunk_{i+1}", for the 1-based position k = i + 1
ChunkId(d, k) == d \o "_chunk_" \o ToString(k)

\* str(uuid.uuid4()) for each chunk: identifiers that differ from one another
UuidLists(n) ==
    {[k \in 1..n |-> "uuid-" \o ToString(f[k])] :
        f \in {g \in [1..n -> 1..MaxTexts] : \A a, b \in 1..n : a # b => g[a] # g[b]}}

ZipLen_dropLast(cs, es) == Min(Len(cs), Len(es)) - 1

\* zip stops at the shorter of its two lists
ZipLen(cs, es) == Min(Len(cs), Len(es))

\* the vectors of final_embedding_solution.py
BuildVectors(f, cs, es) ==
    [k \in 1..ZipLen(cs, es) |->
        [id |-> ChunkId(doc_id(f), k),
         values |-> es[k],
         metadata |-> [document |-> basename(f), chunk_id |-> k,
                       total_chunks |-> Len(cs), text |-> cs[k]]]]

\* the vectors of process_document.py
DocVectors(f, cs, es) ==
    [k \in 1..ZipLen(es, cs) |->
        [id |-> ChunkId(doc_id(f), k),
         values |-> es[k],
         metadata |-> [id |-> ChunkId(doc_id(f), k), source |-> file_path(f),
                       text |-> cs[k], chunk_num |-> k,
                       total_chunks |-> Len(cs), document_id |-> doc_id(f)]]]

\* the vectors of process_text.py
TextVectors(f, cs, es, ids) ==
    [k \in 1..ZipLen(es, cs) |->
        [id |-> ids[k],
         values |-> es[k],
         metadata |-> [id |-> ids[k], source |-> file_path(f),
                       text |-> cs[k], chunk_num |-> k,
                       total_chunks |-> Len(cs)]]]

InitPipeline ==
    /\ EmbedIdle /\ SplitIdle /\ UpsertIdle /\ CliIdle /\ MdIdle
    /\ index \in {AbsentIndex, ReadyIndex}
    /\ stored = {}
    /\ now = 0
    /\ storeCalls = <<>>
    /\ ulog = <<>>
    /\ ci_calls = <<>>
    /\ driver \in Drivers
    /\ p_pc = "call"
    /\ p_file \in Files
    /\ p_namespace \in Namespaces
    /\ p_chunks = <<>>
    /\ p_embeddings = <<>>
    /\ p_ret = "none"
    /\ p_failed = <<>>
    /\ p_prev = <<>>

\* the stage raises: control goes to the driver's except clause
Raise(stage) ==
    /\ p_failed' = Append(p_failed, stage)
    /\ p_pc' = "except"

Proceed(stage) ==
    /\ p_pc' = stage
    /\ UNCHANGED p_failed

\* doc_processor.load_document(file_path)
PD_load ==
    /\ driver = "final_embedding_solution"
    /\ p_pc = "call"
    /\ \E ok \in BOOLEAN :
         IF lower(p_file.ext) \in SupportedExts /\ ok
         THEN Proceed("split")
         ELSE Raise("load")
    /\ UNCHANGED <<ci_calls, driver, p_prev, p_file, p_namespace, p_chunks, p_embeddings, p_ret>>
    /\ UNCHANGED <<mdVars, embedVars, splitVars, storeVars, upVars, cliVars>>

\* doc_processor.split_text(content, chunk_size, chunk_overlap)
PD_split ==
    /\ driver = "final_embedding_solution"
    /\ p_pc = "split"
    /\ \E ok \in BOOLEAN, cs \in TextLists :
         IF ok
         THEN p_chunks' = cs /\ Proceed("embed")
         ELSE UNCHANGED p_chunks /\ Raise("chunking")
    /\ UNCHANGED <<ci_calls, driver, p_prev, p_file, p_namespace, p_embeddings, p_ret>>
    /\ UNCHANGED <<mdVars, embedVars, splitVars, storeVars, upVars, cliVars>>

\* E5Embedder().generate_embeddings(chunks)
PD_embed ==
    /\ driver = "final_embedding_solution"
    /\ p_pc = "embed"
    /\ \E ok \in BOOLEAN :
         IF ok
         THEN /\ p_embeddings' = generate_embeddings(p_chunks, DefaultBatchSize)
              /\ Proceed("list_indexes")
         ELSE UNCHANGED p_embeddings /\ Raise("embedding")
    /\ UNCHANGED <<ci_calls, driver, p_prev, p_file, p_namespace, p_chunks, p_ret>>
    /\ UNCHANGED <<mdVars, embedVars, splitVars, storeVars, upVars, cliVars>>

\* available_indexes = pc_manager.list_indexes()
PD_list_indexes ==
    /\ driver = "final_embedding_solution"
    /\ p_pc = "list_indexes"
    /\ \E listed \in BOOLEAN :
         /\ storeCalls' = Append(storeCalls, [op |-> "list_indexes",
                                              state |-> IndexState, ok |-> listed])
         /\ IF ~listed THEN Raise("index lookup")
            ELSE IF IndexListed THEN Proceed("get_index")
            ELSE Proceed("create_index")
    /\ UNCHANGED <<index, stored, now, ulog>>
    /\ UNCHANGED <<ci_calls, driver, p_prev, p_file, p_namespace, p_chunks, p_embeddings, p_ret>>
    /\ UNCHANGED <<mdVars, embedVars, splitVars, upVars, cliVars>>

IndexDimension_halved(es) == E5Dim \div 2

\* dimension = len(embeddings[0]) if embeddings else 1024
IndexDimension(es) == IF es # <<>> THEN es[1].dim ELSE E5Dim

\* pc_manager.create_index(index_name, dimension)
PD_create_index ==
    /\ driver = "final_embedding_solution"
    /\ p_pc = "create_index"
    /\ \E listed \in BOOLEAN, accepted \in BOOLEAN, delay \in 0..MaxReadyDelay :
         create_index(IndexDimension(p_embeddings), "cosine", listed, accepted, delay)
    /\ IF ci_calls'[Len(ci_calls')].ret = "raised"
       THEN Raise("index creation")
       ELSE Proceed("get_index")
    /\ UNCHANGED stored
    /\ UNCHANGED <<driver, p_prev, p_file, p_namespace, p_chunks, p_embeddings, p_ret>>
    /\ UNCHANGED <<mdVars, embedVars, splitVars, upVars, cliVars>>

\* index = pc_manager.get_index(index_name); if not index: return False
PD_get_index ==
    /\ driver = "final_embedding_solution"
    /\ p_pc = "get_index"
    /\ \E listed \in BOOLEAN :
         /\ storeCalls' = Append(storeCalls, [op |-> "list_indexes",
                                              state |-> IndexState, ok |-> listed])
         /\ IF ~listed
            THEN Raise("index lookup") /\ UNCHANGED <<ulog, p_ret>>
            ELSE IF IndexListed
            THEN Proceed("vectors") /\ UNCHANGED <<ulog, p_ret>>
            ELSE /\ ulog' = ulog \o <<LogEntry("error", "Index {} does not exist", NoArgs),
                                      LogEntry("error", "Failed to get index {}", NoArgs)>>
                 /\ p_failed' = Append(p_failed, "index lookup")
                 /\ p_ret' = "False"
                 /\ p_pc' = "done"
    /\ UNCHANGED <<index, stored, now>>
    /\ UNCHANGED <<ci_calls, driver, p_prev, p_file, p_namespace, p_chunks, p_embeddings>>
    /\ UNCHANGED <<mdVars, embedVars, splitVars, upVars, cliVars>>

\* the vectors are built and upsert_vectors(index, vectors, namespace) is called
PD_upsert_vectors ==
    /\ driver = "final_embedding_solution"
    /\ p_pc = "vectors"
    /\ up_vectors' = BuildVectors(p_file, p_chunks, p_embeddings)
    /\ up_namespace' = p_namespace
    /\ up_batch' = UpsertDefaultBatch
    /\ upc' = "call"
    /\ Proceed("upsert")
    /\ UNCHANGED <<up_i, up_ret>>
    /\ UNCHANGED <<ci_calls, driver, p_prev, p_file, p_namespace, p_chunks, p_embeddings, p_ret>>
    /\ UNCHANGED <<mdVars, embedVars, splitVars, storeVars, cliVars>>

UpsertSucceeded_ignored(ret) == TRUE

\* the test of "if not success"
UpsertSucceeded(ret) == ret = "True"

\* success = ...; if not success: return False
PD_upsert_returned ==
    /\ driver = "final_embedding_solution"
    /\ p_pc = "upsert"
    /\ upc = "done"
    /\ IF ~UpsertSucceeded(up_ret)
       THEN /\ ulog' = Append(ulog, LogEntry("error", "Failed to upsert vectors", NoArgs))
            /\ p_failed' = Append(p_failed, "upsert")
            /\ p_ret' = "False"
            /\ p_pc' = "done"
       ELSE Proceed("query_embedding") /\ UNCHANGED <<ulog, p_ret>>
    /\ UNCHANGED <<index, stored, now, storeCalls>>
    /\ UNCHANGED <<ci_calls, driver, p_prev, p_file, p_namespace, p_chunks, p_embeddings>>
    /\ UNCHANGED <<mdVars, embedVars, splitVars, upVars, cliVars>>

\* query_embedding = embedder.generate_embeddings([query_text])[0]
PD_query_embedding ==
    /\ driver = "final_embedding_solution"
    /\ p_pc = "query_embedding"
    /\ \E ok \in BOOLEAN :
         IF ok THEN Proceed("query") ELSE Raise("sample query")
    /\ UNCHANGED <<ci_calls, driver, p_prev, p_file, p_namespace, p_chunks, p_embeddings, p_ret>>
    /\ UNCHANGED <<mdVars, embedVars, splitVars, storeVars, upVars, cliVars>>

\* index.query(...), served by the store or not
index_query(ok) ==
    storeCalls' = Append(storeCalls, [op |-> "query", namespace |-> p_namespace,
                                      state |-> IndexState, ok |-> ok])

Matches == {r \in stored : r.namespace = p_namespace}

\* results = pc_manager.query_index(...); the results are logged; return True
PD_query ==
    /\ driver = "final_embedding_solution"
    /\ p_pc = "query"
    /\ \E accepted \in BOOLEAN :
         LET ok == accepted /\ IndexState = "ready"
         IN /\ index_query(ok)
            /\ IF ok
               THEN /\ ulog' = Append(ulog,
                                 IF Matches # {}
                                 THEN LogEntry("info", "Query returned {} matches:",
                                               [count |-> Cardinality(Matches)])
                                 ELSE LogEntry("info", "Query returned no matches", NoArgs))
                    /\ UNCHANGED p_failed
               ELSE /\ ulog' = ulog \o <<LogEntry("error", "Error querying index: {}",
                                                  [e |-> "StoreError"]),
                                         LogEntry("info", "Query returned no matches", NoArgs)>>
                    /\ p_failed' = Append(p_failed, "sample query")
    /\ p_ret' = "True"
    /\ p_pc' = "done"
    /\ UNCHANGED <<index, stored, now>>
    /\ UNCHANGED <<ci_calls, driver, p_prev, p_file, p_namespace, p_chunks, p_embeddings>>
    /\ UNCHANGED <<mdVars, embedVars, splitVars, upVars, cliVars>>

\* except Exception as e: ... return False
PD_except ==
    /\ driver = "final_embedding_solution"
    /\ p_pc = "except"
    /\ ulog' = Append(ulog, LogEntry("error", "Error processing document: {}",
                                     [e |-> Last(p_failed)]))
    /\ p_ret' = "False"
    /\ p_pc' = "done"
    /\ UNCHANGED <<index, stored, now, storeCalls>>
    /\ UNCHANGED <<ci_calls, driver, p_prev, p_file, p_namespace, p_chunks, p_embeddings, p_failed>>
    /\ UNCHANGED <<mdVars, embedVars, splitVars, upVars, cliVars>>

\* the document is loaded and split
Doc_load_split ==
    /\ driver \in DocDrivers
    /\ p_pc = "call"
    /\ \E ok \in BOOLEAN, cs \in TextLists :
         IF ok
         THEN p_chunks' = cs /\ Proceed("index")
         ELSE UNCHANGED p_chunks /\ Raise("load")
    /\ UNCHANGED <<ci_calls, driver, p_prev, p_file, p_namespace, p_embeddings, p_ret>>
    /\ UNCHANGED <<mdVars, embedVars, splitVars, storeVars, upVars, cliVars>>

\* if index_name not in available_indexes: return False
Doc_index_check ==
    /\ driver \in DocDrivers
    /\ p_pc = "index"
    /\ \E listed \in BOOLEAN :
         /\ storeCalls' = Append(storeCalls, [op |-> "list_indexes",
                                              state |-> IndexState, ok |-> listed])
         /\ IF ~listed
            THEN Raise("index lookup") /\ UNCHANGED <<ulog, p_ret>>
            ELSE IF IndexListed
            THEN Proceed("embed") /\ UNCHANGED <<ulog, p_ret>>
            ELSE /\ ulog' = Append(ulog, LogEntry("error",
                                   "Index {} does not exist. Please create it first.", NoArgs))
                 /\ p_failed' = Append(p_failed, "index lookup")
                 /\ p_ret' = "False"
                 /\ p_pc' = "done"
    /\ UNCHANGED <<index, stored, now>>
    /\ UNCHANGED <<ci_calls, driver, p_prev, p_file, p_namespace, p_chunks, p_embeddings>>
    /\ UNCHANGED <<mdVars, embedVars, splitVars, upVars, cliVars>>

\* get_embeddings(docs_to_embed, batch_size=8), then the vectors are built
Doc_embed ==
    /\ driver \in DocDrivers
    /\ p_pc = "embed"
    /\ \E es \in {generate_embeddings(p_chunks, DefaultBatchSize)}
                     \cup MockLists(Len(p_chunks), MockDim),
          ids \in IF driver = "process_text"
                  THEN UuidLists(Len(p_chunks)) ELSE {<<>>} :
         /\ p_embeddings' = es
         /\ up_vectors' = IF driver = "process_document"
                          THEN DocVectors(p_file, p_chunks, es)
                          ELSE TextVectors(p_file, p_chunks, es, ids)
    /\ up_namespace' = p_namespace
    /\ up_batch' = UpsertDefaultBatch
    /\ up_i' = 0
    /\ Proceed("upsert")
    /\ UNCHANGED <<up_ret, upc>>
    /\ UNCHANGED <<ci_calls, driver, p_prev, p_file, p_namespace, p_chunks, p_ret>>
    /\ UNCHANGED <<mdVars, embedVars, splitVars, storeVars, cliVars>>

\* one iteration of the driver's own upsert loop
Doc_upsert_batch ==
    /\ driver \in DocDrivers
    /\ p_pc = "upsert"
    /\ up_i < Len(up_vectors)
    /\ \E accepted \in BOOLEAN :
         LET batch == Slice(up_vectors, up_i, up_batch)
             ok == accepted /\ IndexState = "ready"
         IN /\ ulog' = Append(ulog, BatchLogEntry(batch))
            /\ index_upsert(batch, ok)
            /\ IF ok
               THEN up_i' = up_i + up_batch /\ Proceed("upsert")
               ELSE UNCHANGED up_i /\ Raise("upsert")
    /\ UNCHANGED <<index, now>>
    /\ UNCHANGED <<up_vectors, up_namespace, up_batch, up_ret, upc>>
    /\ UNCHANGED <<ci_calls, driver, p_prev, p_file, p_namespace, p_chunks, p_embeddings, p_ret>>
    /\ UNCHANGED <<mdVars, embedVars, splitVars, cliVars>>

\* the loop is over: process_document.py returns True, process_text.py goes on
Doc_upsert_completed ==
    /\ driver \in DocDrivers
    /\ p_pc = "upsert"
    /\ up_i >= Len(up_vectors)
    /\ ulog' = Append(ulog, LogEntry("info", "Upsert completed!", NoArgs))
    /\ IF driver = "process_document"
       THEN p_ret' = "True" /\ p_pc' = "done"
       ELSE p_ret' = p_ret /\ p_pc' = "query"
    /\ UNCHANGED <<index, stored, now, storeCalls>>
    /\ UNCHANGED <<ci_calls, driver, p_prev, p_file, p_namespace, p_chunks, p_embeddings, p_failed>>
    /\ UNCHANGED <<mdVars, embedVars, splitVars, upVars, cliVars>>

\* process_text.py: the test query, straight on the index
Text_query ==
    /\ driver = "process_text"
    /\ p_pc = "query"
    /\ \E accepted \in BOOLEAN :
         LET ok == accepted /\ IndexState = "ready"
         IN /\ index_query(ok)
            /\ IF ok
               THEN /\ ulog' = Append(ulog, LogEntry("info", "Query results ({} matches):",
                                                     [count |-> Cardinality(Matches)]))
                    /\ p_ret' = "True"
                    /\ p_pc' = "done"
                    /\ UNCHANGED p_failed
               ELSE UNCHANGED <<ulog, p_ret>> /\ Raise("sample query")
    /\ UNCHANGED <<index, stored, now>>
    /\ UNCHANGED <<ci_calls, driver, p_prev, p_file, p_namespace, p_chunks, p_embeddings>>
    /\ UNCHANGED <<mdVars, embedVars, splitVars, upVars, cliVars>>

\* except Exception as e: ... return False
Doc_except ==
    /\ driver \in DocDrivers
    /\ p_pc = "except"
    /\ ulog' = Append(ulog, LogEntry("error", "An error occurred while processing {}: {}",
                                     [e |-> Last(p_failed)]))
    /\ p_ret' = "False"
    /\ p_pc' = "done"
    /\ UNCHANGED <<index, stored, now, storeCalls>>
    /\ UNCHANGED <<ci_calls, driver, p_prev, p_file, p_namespace, p_chunks, p_embeddings, p_failed>>
    /\ UNCHANGED <<mdVars, embedVars, splitVars, upVars, cliVars>>

\* custom_query.py: query_embedding = generate_embedding(query_text)
Q_generate_embedding ==
    /\ driver = "custom_query"
    /\ p_pc = "call"
    /\ \E ok \in BOOLEAN :
         IF ok
         THEN Proceed("index") /\ UNCHANGED <<ulog, p_ret>>
         ELSE /\ ulog' = Append(ulog, LogEntry("error",
                                "Failed to generate embedding for query", NoArgs))
              /\ p_failed' = Append(p_failed, "embedding")
              /\ p_ret' = "False"
              /\ p_pc' = "done"
    /\ UNCHANGED <<index, stored, now, storeCalls>>
    /\ UNCHANGED <<ci_calls, driver, p_prev, p_file, p_namespace, p_chunks, p_embeddings>>
    /\ UNCHANGED <<mdVars, embedVars, splitVars, upVars, cliVars>>

\* custom_query.py: if index_name not in pc.list_indexes().names(): return False
Q_index_check ==
    /\ driver = "custom_query"
    /\ p_pc = "index"
    /\ \E listed \in BOOLEAN :
         /\ storeCalls' = Append(storeCalls, [op |-> "list_indexes",
                                              state |-> IndexState, ok |-> listed])
         /\ IF ~listed
            THEN Raise("index lookup") /\ UNCHANGED <<ulog, p_ret>>
            ELSE IF IndexListed
            THEN Proceed("query") /\ UNCHANGED <<ulog, p_ret>>
            ELSE /\ ulog' = Append(ulog, LogEntry("error", "Index {} does not exist", NoArgs))
                 /\ p_failed' = Append(p_failed, "index lookup")
                 /\ p_ret' = "False"
                 /\ p_pc' = "done"
    /\ UNCHANGED <<index, stored, now>>
    /\ UNCHANGED <<ci_calls, driver, p_prev, p_file, p_namespace, p_chunks, p_embeddings>>
    /\ UNCHANGED <<mdVars, embedVars, splitVars, upVars, cliVars>>

\* custom_query.py: results = index.query(...); the matches are logged; return True
Q_query ==
    /\ driver = "custom_query"
    /\ p_pc = "query"
    /\ \E accepted \in BOOLEAN :
         LET ok == accepted /\ IndexState = "ready"
         IN /\ index_query(ok)
            /\ IF ok
               THEN /\ ulog' = Append(ulog,
                                 IF Matches # {}
                                 THEN LogEntry("info", "Found {} matches:",
                                               [count |-> Cardinality(Matches)])
                                 ELSE LogEntry("info", "No matches found", NoArgs))
                    /\ p_ret' = "True"
                    /\ p_pc' = "done"
                    /\ UNCHANGED p_failed
               ELSE UNCHANGED <<ulog, p_ret>> /\ Raise("query")
    /\ UNCHANGED <<index, stored, now>>
    /\ UNCHANGED <<ci_calls, driver, p_prev, p_file, p_namespace, p_chunks, p_embeddings>>
    /\ UNCHANGED <<mdVars, embedVars, splitVars, upVars, cliVars>>

\* custom_query.py: except Exception as e: ... return False
Q_except ==
    /\ driver = "custom_query"
    /\ p_pc = "except"
    /\ ulog' = Append(ulog, LogEntry("error", "Error querying Pinecone: {}",
                                     [e |-> Last(p_failed)]))
    /\ p_ret' = "False"
    /\ p_pc' = "done"
    /\ UNCHANGED <<index, stored, now, storeCalls>>
    /\ UNCHANGED <<ci_calls, driver, p_prev, p_file, p_namespace, p_chunks, p_embeddings, p_failed>>
    /\ UNCHANGED <<mdVars, embedVars, splitVars, upVars, cliVars>>

\* the script's end: sys.exit(0) if success else sys.exit(1)
Driver_exit ==
    /\ p_pc = "done"
    /\ exit_code' = IF p_ret = "True" THEN 0 ELSE 1
    /\ p_pc' = "exited"
    /\ UNCHANGED <<script, cpc, argv, environ, api_key, key_source, outcome>>
    /\ UNCHANGED <<ci_calls, driver, p_prev, p_file, p_namespace, p_chunks, p_embeddings, p_ret, p_failed>>
    /\ UNCHANGED <<mdVars, embedVars, splitVars, storeVars, upVars>>

NextPipeline ==
    \/ PD_load \/ PD_split \/ PD_embed
    \/ PD_list_indexes \/ PD_create_index \/ PD_get_index
    \/ PD_upsert_vectors \/ UV_call \/ UV_batch \/ UV_return \/ UV_except
    \/ PD_upsert_returned \/ PD_query_embedding \/ PD_query \/ PD_except
    \/ Doc_load_split \/ Doc_index_check \/ Doc_embed
    \/ Doc_upsert_batch \/ Doc_upsert_completed \/ Text_query \/ Doc_except
    \/ Q_generate_embedding \/ Q_index_check \/ Q_query \/ Q_except
    \/ Driver_exit

SpecPipeline == InitPipeline /\ [][NextPipeline]_vars

\* upsert_vectors called by a client of its own or by process_document
InitUpsertCallers == InitUpsert \/ InitPipeline

SpecUpsertCallers == InitUpsertCallers /\ [][NextPipeline]_vars


(***************************************************************************)
(* C16: the pipeline issues upsert and query only against an index in      *)
(* state ready: no pipeline reaches an upsert or a query while the index   *)
(* it just created is still initializing, or absent.                       *)
(***************************************************************************)
C16_OnlyReadyIndexUsed ==
    \A k \in 1..Len(storeCalls) :
        storeCalls[k].op \in {"upsert", "query"} => storeCalls[k].state = "ready"

(***************************************************************************)
(* C17: in process_document of final_embedding_solution.py a failure of    *)
(* any stage (load, chunking, embedding, index creation or lookup, upsert, *)
(* sample query) aborts the later stages and is returned as a failure: no  *)
(* run with a failed stage returns True.                                   *)
(***************************************************************************)
C17_StageFailureSurfaces ==
    (driver = "final_embedding_solution" /\ p_failed # <<>>) =>
        /\ Len(p_failed) = 1
        /\ p_pc \in {"except", "done", "exited"}
        /\ p_pc \in {"done", "exited"} => p_ret = "False"

(***************************************************************************)
(* C20: the driver builds exactly one record per chunk, the record of the  *)
(* k-th chunk (k counted from 1) having the identifier                     *)
(* "<document_id>_chunk_<k>", document_id being the file name without its  *)
(* extension; the identifiers of one run differ from one another.          *)
(***************************************************************************)
C20_OneRecordPerChunk ==
    p_pc = "upsert" =>
        /\ Len(up_vectors) = Len(p_chunks)
        /\ \A k \in 1..Len(up_vectors) :
              up_vectors[k].id = p_file.stem \o "_chunk_" \o ToString(k)
        /\ \A a, b \in 1..Len(up_vectors) :
              a # b => up_vectors[a].id # up_vectors[b].id


(***************************************************************************)
(* The script entry points.  argv.path says whether the positional         *)
(* argument is given; argv.api_key is the value of --api_key, "absent"     *)
(* when the flag is not given; environ is PINECONE_API_KEY, "unset" when   *)
(* the variable is not set.  outcome.failed says whether a stage of the    *)
(* script's pipeline failed, outcome.ret what the pipeline function        *)
(* returned ("completed" or "raised" for a script without one).            *)
(***************************************************************************)
ArgparseScripts == {"final_embedding_solution", "custom_query"}

ArgvScripts == {"process_document", "process_text"}

Scripts == ArgparseScripts \cup ArgvScripts \cup {"integrate_e5"}

FlagValues == {"absent", "", "flag-key"}

EnvironValues == {"unset", "", "env-key"}

HardCodedKey == "api_KEY_PINECODE"

ArgparseUsageExit == 2

\* os.environ.get("PINECONE_API_KEY", "")
environ_get(env) == IF env = "unset" THEN "" ELSE env

ResolveKey_environFirst(flag, env) ==
    IF env \notin {"unset", ""}
    THEN [key |-> env, source |-> "environ"]
    ELSE [key |-> IF flag = "absent" THEN "" ELSE flag, source |-> "flag"]

\* api_key = args.api_key or os.environ.get("PINECONE_API_KEY", "")
ResolveKey(flag, env) ==
    IF flag \notin {"absent", ""}
    THEN [key |-> flag, source |-> "flag"]
    ELSE [key |-> environ_get(env),
          source |-> IF env = "unset" THEN "default" ELSE "environ"]

\* parser.add_argument("--api_key", default="api_KEY_PINECODE")
QueryKey(flag) ==
    IF flag = "absent"
    THEN [key |-> HardCodedKey, source |-> "default"]
    ELSE [key |-> flag, source |-> "flag"]

InitCli ==
    /\ EmbedIdle /\ SplitIdle /\ StoreIdle /\ UpsertIdle /\ PipeIdle /\ MdIdle
    /\ script \in Scripts
    /\ cpc = "start"
    /\ argv \in [path : BOOLEAN, api_key : FlagValues]
    /\ script \notin ArgparseScripts => argv.api_key = "absent"
    /\ script = "integrate_e5" => ~argv.path
    /\ environ \in EnvironValues
    /\ api_key = "none"
    /\ key_source = "none"
    /\ outcome = [failed |-> FALSE, ret |-> "none"]
    /\ exit_code = -1

\* args = parser.parse_args(), then the credential
MAIN_parse_args ==
    /\ script \in ArgparseScripts
    /\ cpc = "start"
    /\ IF ~argv.path
       THEN /\ exit_code' = ArgparseUsageExit
            /\ cpc' = "exited"
            /\ UNCHANGED <<api_key, key_source>>
       ELSE /\ LET k == IF script = "custom_query"
                        THEN QueryKey(argv.api_key)
                        ELSE ResolveKey(argv.api_key, environ)
               IN api_key' = k.key /\ key_source' = k.source
            /\ cpc' = "parsed"
            /\ UNCHANGED exit_code
    /\ UNCHANGED <<script, argv, environ, outcome>>
    /\ UNCHANGED <<mdVars, embedVars, splitVars, storeVars, upVars, pipeVars>>

\* if len(sys.argv) < 2: sys.exit(1); the credential is set when the module loads
MAIN_sys_argv ==
    /\ script \in ArgvScripts
    /\ cpc = "start"
    /\ LET k == IF script = "process_document"
                THEN [key |-> HardCodedKey, source |-> "default"]
                ELSE [key |-> environ_get(environ),
                      source |-> IF environ = "unset" THEN "default" ELSE "environ"]
       IN api_key' = k.key /\ key_source' = k.source
    /\ IF ~argv.path
       THEN exit_code' = 1 /\ cpc' = "exited"
       ELSE UNCHANGED exit_code /\ cpc' = "parsed"
    /\ UNCHANGED <<script, argv, environ, outcome>>
    /\ UNCHANGED <<mdVars, embedVars, splitVars, storeVars, upVars, pipeVars>>

\* what the pipeline function of a script can do
Outcomes(sc) ==
    {[failed |-> FALSE, ret |-> "True"], [failed |-> TRUE, ret |-> "False"]}
    \cup IF sc = "final_embedding_solution"
         THEN {[failed |-> TRUE, ret |-> "True"]}
         ELSE {}

\* success = process_document(...) / query_pinecone(...) / process_text_file(...)
MAIN_run ==
    /\ script \in ArgparseScripts \cup ArgvScripts
    /\ cpc = "parsed"
    /\ outcome' \in Outcomes(script)
    /\ cpc' = "ran"
    /\ UNCHANGED <<script, argv, environ, api_key, key_source, exit_code>>
    /\ UNCHANGED <<mdVars, embedVars, splitVars, storeVars, upVars, pipeVars>>

\* sys.exit(0) if success else sys.exit(1)
MAIN_exit ==
    /\ script \in ArgparseScripts \cup ArgvScripts
    /\ cpc = "ran"
    /\ exit_code' = IF outcome.ret = "True" THEN 0 ELSE 1
    /\ cpc' = "exited"
    /\ UNCHANGED <<script, argv, environ, api_key, key_source, outcome>>
    /\ UNCHANGED <<mdVars, embedVars, splitVars, storeVars, upVars, pipeVars>>

\* integrate_e5.py: the module body, try ... except Exception: print
IE5_module ==
    /\ script = "integrate_e5"
    /\ cpc = "start"
    /\ api_key' = environ_get(environ)
    /\ key_source' = IF environ = "unset" THEN "default" ELSE "environ"
    /\ outcome' \in {[failed |-> FALSE, ret |-> "completed"], [failed |-> TRUE, ret |-> "raised"]}
    /\ cpc' = "ran"
    /\ UNCHANGED <<script, argv, environ, exit_code>>
    /\ UNCHANGED <<mdVars, embedVars, splitVars, storeVars, upVars, pipeVars>>

\* integrate_e5.py: the interpreter reaches the end of the module
IE5_end ==
    /\ script = "integrate_e5"
    /\ cpc = "ran"
    /\ exit_code' = 0
    /\ cpc' = "exited"
    /\ UNCHANGED <<script, argv, environ, api_key, key_source, outcome>>
    /\ UNCHANGED <<mdVars, embedVars, splitVars, storeVars, upVars, pipeVars>>

NextCli ==
    \/ MAIN_parse_args \/ MAIN_sys_argv \/ MAIN_run \/ MAIN_exit
    \/ IE5_module \/ IE5_end

SpecCli == InitCli /\ [][NextCli]_vars

PipelineSucceeded ==
    /\ script = "integrate_e5" \/ argv.path
    /\ outcome.ret # "none"
    /\ ~outcome.failed

(***************************************************************************)
(* C18: every script entry point ends with exit code 0 exactly when its    *)
(* pipeline succeeded, and with exit code 1 on any failure (an exception   *)
(* in a stage, a missing index, a missing command-line argument).          *)
(***************************************************************************)
C18_ExitCodeReportsOutcome ==
    cpc = "exited" => exit_code = IF PipelineSucceeded THEN 0 ELSE 1

(***************************************************************************)
(* C19 as stated: the credential the pipeline uses is the value of the     *)
(* --api_key flag whenever the flag is supplied, whatever                  *)
(* PINECONE_API_KEY holds; the environment variable is used only when the  *)
(* flag is not supplied.                                                   *)
(***************************************************************************)
C19_Original ==
    cpc \in {"parsed", "ran"} =>
        /\ argv.api_key # "absent" => api_key = argv.api_key
        /\ (key_source = "environ" /\ environ # "") => argv.api_key = "absent"

(***************************************************************************)
(* C19, amended: the credential the pipeline uses is the value of the      *)
(* --api_key flag whenever the flag is supplied with a non-empty value,    *)
(* whatever PINECONE_API_KEY holds; the environment variable is used only  *)
(* when the flag is not supplied or is supplied empty.                     *)
(***************************************************************************)
C19_Amended ==
    cpc \in {"parsed", "ran"} =>
        /\ argv.api_key \notin {"absent", ""} =>
              (api_key = argv.api_key /\ key_source = "flag")
        /\ key_source = "environ" => (argv.api_key \in {"absent", ""} /\ api_key = environ)

C19_Witness ==
    /\ script = "final_embedding_solution"
    /\ cpc = "ran"
    /\ argv.api_key = "flag-key"
    /\ environ = "env-key"
    /\ api_key = "flag-key"


(***************************************************************************)
(* C21: when the pipeline creates the target index, the index's dimension  *)
(* is the length of the first embedding of that run, so every record       *)
(* upserted in that run has a vector as long as the index dimension.       *)
(***************************************************************************)
IndexCreatedByRun == \E k \in 1..Len(CreateCalls) : CreateCalls[k].ok

C21_DimensionFromFirstEmbedding ==
    (driver = "final_embedding_solution" /\ IndexCreatedByRun) =>
        /\ p_embeddings # <<>> => index.dimension = p_embeddings[1].dim
        /\ \A k \in 1..Len(UpsertCalls) :
              \A r \in 1..Len(UpsertCalls[k].vectors) :
                  UpsertCalls[k].vectors[r].values.dim = index.dimension

C21_Witness ==
    /\ driver = "final_embedding_solution"
    /\ IndexCreatedByRun
    /\ Len(UpsertCalls) = 1
    /\ UpsertCalls[1].ok
    /\ Len(UpsertCalls[1].vectors) = 2
    /\ UpsertCalls[1].vectors[2].values.dim = index.dimension


QueryCalls == SelectSeq(storeCalls, LAMBDA c : c.op = "query")

Returned == p_pc \in {"done", "exited"}

(***************************************************************************)
(* C22: a query that returns no match is a success (query_pinecone and     *)
(* process_document return True, the script exits 0), and a failed query   *)
(* is told apart from it: it is not reported as success.                   *)
(***************************************************************************)
C22_EmptyResultIsNotFailure ==
    (driver \in {"final_embedding_solution", "custom_query"}
        /\ Returned /\ QueryCalls # <<>>) =>
        /\ QueryCalls[1].ok =>
              (p_ret = "True" /\ (p_pc = "exited" => exit_code = 0))
        /\ ~QueryCalls[1].ok =>
              (p_ret = "False" /\ (p_pc = "exited" => exit_code = 1))

(***************************************************************************)
(* C23: in process_document.py, process_text.py and custom_query.py, when  *)
(* the target index is not among the store's indexes the operation returns *)
(* failure, the script exits with code 1, and no create, upsert or query   *)
(* call is issued to the store.                                            *)
(***************************************************************************)
C23_MissingIndexFails ==
    (driver \in DocDrivers \cup {"custom_query"} /\ ~index.exists) =>
        /\ \A k \in 1..Len(storeCalls) :
              storeCalls[k].op \notin {"create_index", "upsert", "query"}
        /\ Returned => p_ret = "False"
        /\ p_pc = "exited" => exit_code = 1

C23_Witness ==
    /\ driver = "process_text"
    /\ ~index.exists
    /\ p_chunks # <<>>
    /\ Len(storeCalls) = 1
    /\ storeCalls[1].op = "list_indexes"
    /\ storeCalls[1].ok
    /\ p_failed = <<"index lookup">>
    /\ p_pc = "exited"
    /\ exit_code = 1



(***************************************************************************)
(* A second run of process_document: the store holds what an earlier run   *)
(* of the same driver wrote for the same file into the same namespace.     *)
(* p_prev is the text of the earlier run's chunks.                         *)
(***************************************************************************)
RerunDrivers == {"final_embedding_solution", "process_document"}

RerunFile == [stem |-> "doc", ext |-> ".txt"]

\* what a completed run of the driver leaves in the namespace; the earlier
\* run of process_document.py embedded with the model or fell back to mock
\* vectors (one draw of them stands for all)
PreviousRuns(d, f, ns, prev) ==
    IF d = "final_embedding_solution"
    THEN {Upserted({}, ns, BuildVectors(f, prev,
                               generate_embeddings(prev, DefaultBatchSize)))}
    ELSE {Upserted({}, ns, DocVectors(f, prev, es)) :
             es \in {generate_embeddings(prev, DefaultBatchSize),
                     [k \in 1..Len(prev) |-> MockVector(MockDim, 1)]}}

InitRerun ==
    /\ EmbedIdle /\ SplitIdle /\ UpsertIdle /\ CliIdle /\ MdIdle
    /\ index = ReadyIndex
    /\ now = 0
    /\ storeCalls = <<>>
    /\ ulog = <<>>
    /\ ci_calls = <<>>
    /\ driver \in RerunDrivers
    /\ p_pc = "call"
    /\ p_file = RerunFile
    /\ p_namespace \in Namespaces
    /\ p_prev \in TextLists
    /\ stored \in PreviousRuns(driver, p_file, p_namespace, p_prev)
    /\ p_chunks = <<>>
    /\ p_embeddings = <<>>
    /\ p_ret = "none"
    /\ p_failed = <<>>

NextRerun ==
    \/ PD_load \/ PD_split \/ PD_embed
    \/ PD_list_indexes \/ PD_get_index
    \/ PD_upsert_vectors \/ UV_call \/ UV_batch \/ UV_return \/ UV_except
    \/ PD_upsert_returned \/ PD_query_embedding \/ PD_query \/ PD_except
    \/ Doc_load_split \/ Doc_index_check \/ Doc_embed
    \/ Doc_upsert_batch \/ Doc_upsert_completed \/ Doc_except
    \/ Driver_exit

SpecRerun == InitRerun /\ [][NextRerun]_vars

NamespaceRecords == {r.record : r \in {s \in stored : s.namespace = p_namespace}}

(***************************************************************************)
(* C24: upsert is last-write-wins per identifier and the identifiers of    *)
(* process_document depend on the document name and the chunk position     *)
(* only: after a second successful run on the same file with the same      *)
(* number of chunks, into the same index and namespace, the namespace      *)
(* holds exactly one record per chunk identifier (as many records as       *)
(* chunks), each being the record of the later run.                        *)
(***************************************************************************)
C24_RerunOverwrites ==
    (Returned /\ p_ret = "True" /\ Len(p_chunks) = Len(p_prev)) =>
        /\ Cardinality(NamespaceRecords) = Len(p_chunks)
        /\ \A k \in 1..Len(p_chunks) :
              \E r \in NamespaceRecords :
                 /\ r.id = ChunkId(doc_id(p_file), k)
                 /\ r = up_vectors[k]
                 /\ r.metadata.text = p_chunks[k]
                 /\ r.metadata.total_chunks = Len(p_chunks)

C24_Witness ==
    /\ driver = "process_document"
    /\ p_pc = "exited"
    /\ p_ret = "True"
    /\ Len(p_prev) = 2
    /\ Len(p_chunks) = 2
    /\ p_chunks[1] # p_prev[1]
    /\ p_embeddings[2].kind = "mock"
    /\ Cardinality(NamespaceRecords) = 2



PipelineDrivers == {"final_embedding_solution", "process_text"}

\* the positions of the store calls of one kind
CallPositions(op) == {k \in 1..Len(storeCalls) : storeCalls[k].op = op}

\* a store lookup that found the index precedes position k
IndexEnsuredBefore(k) ==
    \E j \in 1..(k - 1) :
        /\ storeCalls[j].op = "list_indexes"
        /\ storeCalls[j].ok
        /\ storeCalls[j].state # "absent"

AllChunksEmbedded == Len(p_embeddings) = Len(p_chunks)

AllRecordsBuilt == Len(up_vectors) = Len(p_chunks)

\* no upsert before every chunk is embedded, its record built and the index
\* ensured; the sample query only after every upsert batch has succeeded
UpsertAndQueryInOrder ==
    /\ \A k \in CallPositions("upsert") :
          AllChunksEmbedded /\ AllRecordsBuilt /\ IndexEnsuredBefore(k)
    /\ \A q \in CallPositions("query") :
          /\ \A k \in CallPositions("upsert") : k < q /\ storeCalls[k].ok
          /\ Concat(CallVectors) = up_vectors
          /\ AllRecordsBuilt

(***************************************************************************)
(* C25 as stated: the stages of process_document occur in the order load,  *)
(* chunk, embed all chunks, build one record per chunk, ensure the index   *)
(* exists, upsert, sample query: when the store is first asked about the   *)
(* index every chunk is embedded and its record is built, no upsert is     *)
(* issued before that, and the sample query is issued only after every     *)
(* upsert batch has succeeded.                                             *)
(***************************************************************************)
C25_Original ==
    /\ (driver = "final_embedding_solution" /\ storeCalls # <<>>) =>
          (AllChunksEmbedded /\ AllRecordsBuilt)
    /\ driver \in PipelineDrivers => UpsertAndQueryInOrder

(***************************************************************************)
(* C25 amended: the index is ensured before the records are built (in      *)
(* final_embedding_solution.py after the embedding, in process_text.py     *)
(* before it): records exist only once a store lookup has succeeded.  The  *)
(* rest is as stated: no upsert is issued before every chunk is embedded,  *)
(* its record built and the index ensured, and the sample query is issued  *)
(* only after every upsert batch has succeeded.                            *)
(***************************************************************************)
C25_Amended ==
    driver \in PipelineDrivers =>
        /\ up_vectors # <<>> => IndexEnsuredBefore(Len(storeCalls) + 1)
        /\ (driver = "process_text" /\ p_embeddings # <<>>) =>
              IndexEnsuredBefore(Len(storeCalls) + 1)
        /\ (driver = "final_embedding_solution" /\ storeCalls # <<>>) =>
              AllChunksEmbedded
        /\ UpsertAndQueryInOrder

C25_Witness ==
    /\ driver = "final_embedding_solution"
    /\ IndexCreatedByRun
    /\ Len(p_chunks) = 2
    /\ Len(UpsertCalls) = 1
    /\ UpsertCalls[1].ok
    /\ Len(QueryCalls) = 1
    /\ p_pc = "exited"



(***************************************************************************)
(* C26: in the batched embedder the resources acquired for batch k (the    *)
(* tokenized input, the model output, the intermediate and the normalized  *)
(* tensor, the accelerator cache) are released on every exit from batch k, *)
(* also when batch k raises, and before batch k + 1 begins: between two    *)
(* iterations and after the loop is left nothing of a batch is held.       *)
(***************************************************************************)
C26_BatchResourcesReleased ==
    Batched => held = {}



(***************************************************************************)
(* The markdown chunker of process_text.py and integrate_e5.py.  A         *)
(* document is a sequence of lines; hashes is the number of '#' characters *)
(* a line starts with before a blank (0: a line of body text).  A chunk is *)
(* the range first..last of its lines with its header-path metadata.       *)
(***************************************************************************)
MaxMdLines == 3
MaxHashes == 8

MdLines == [hashes : 0..MaxHashes, text : {"t"}]

MdDocs == UNION {[1..n -> MdLines] : n \in 0..MaxMdLines}

\* headers_to_split_on: ("##", "Header 1") ... ("#######", "Header 6")
HeadersToSplitOn == [h \in 2..7 |-> "Header " \o ToString(h - 1)]

\* a line is a header when it starts with one of the separators and a blank
Recognized(ln) == ln.hashes \in DOMAIN HeadersToSplitOn

\* the header path after a header line: the headers above it, then itself
HeaderPath(path, ln) ==
    SelectSeq(path, LAMBDA h : h.level < ln.hashes)
        \o <<[level |-> ln.hashes, name |-> HeadersToSplitOn[ln.hashes],
              data |-> ln.text]>>

\* MarkdownHeaderTextSplitter(headers_to_split_on, strip_headers=False)
\* .split_text: a recognized header line opens a chunk and stays in it,
\* any other line joins the chunk that is open
RECURSIVE MdSplitFrom(_, _, _, _)
MdSplitFrom(doc, k, acc, path) ==
    IF k > Len(doc) THEN acc
    ELSE IF Recognized(doc[k])
    THEN MdSplitFrom(doc, k + 1,
                     Append(acc, [first |-> k, last |-> k,
                                     metadata |-> HeaderPath(path, doc[k])]),
                     HeaderPath(path, doc[k]))
    ELSE IF acc = <<>>
    THEN MdSplitFrom(doc, k + 1,
                     <<[first |-> k, last |-> k, metadata |-> <<>>]>>, path)
    ELSE MdSplitFrom(doc, k + 1,
                     [acc EXCEPT ![Len(acc)].last = k], path)

markdown_split_text(doc) == MdSplitFrom(doc, 1, <<>>, <<>>)

\* RecursiveCharacterTextSplitter: pieces of the text in order, cut at the
\* places the sizes dictate, with no header metadata
PlainSplits(doc) ==
    {[c \in 1..(Cardinality(cuts) + 1) |->
        [first |-> IF c = 1 THEN 1
                   ELSE 1 + CHOOSE x \in cuts :
                                Cardinality({y \in cuts : y <= x}) = c - 1,
         last |-> IF c = Cardinality(cuts) + 1 THEN Len(doc)
                  ELSE CHOOSE x \in cuts :
                           Cardinality({y \in cuts : y <= x}) = c,
         metadata |-> <<>>]] :
        cuts \in SUBSET (1..(Len(doc) - 1))}

InitMarkdown ==
    /\ EmbedIdle /\ SplitIdle /\ StoreIdle /\ UpsertIdle /\ PipeIdle /\ CliIdle
    /\ md_doc \in MdDocs
    /\ md_chunks = <<>>
    /\ mpc \in {"process_text", "integrate_e5"}

\* process_text.py: if text_content.strip().startswith("#")
MD_detect ==
    /\ mpc = "process_text"
    /\ mpc' = IF md_doc # <<>> /\ md_doc[1].hashes >= 1
              THEN "markdown" ELSE "plain"
    /\ UNCHANGED <<md_doc, md_chunks>>
    /\ UNCHANGED <<embedVars, splitVars, storeVars, upVars, pipeVars, cliVars>>

\* integrate_e5.py splits its markdown_document unconditionally
MD_module ==
    /\ mpc = "integrate_e5"
    /\ mpc' = "markdown"
    /\ UNCHANGED <<md_doc, md_chunks>>
    /\ UNCHANGED <<embedVars, splitVars, storeVars, upVars, pipeVars, cliVars>>

\* chunks = splitter.split_text(text_content)
MD_split ==
    /\ mpc = "markdown"
    /\ md_chunks' = markdown_split_text(md_doc)
    /\ mpc' = "markdown split"
    /\ UNCHANGED md_doc
    /\ UNCHANGED <<embedVars, splitVars, storeVars, upVars, pipeVars, cliVars>>

\* process_text.py: the else branch, the recursive character splitter
MD_plain ==
    /\ mpc = "plain"
    /\ md_doc # <<>>
    /\ \E cs \in PlainSplits(md_doc) : md_chunks' = cs
    /\ mpc' = "plain split"
    /\ UNCHANGED md_doc
    /\ UNCHANGED <<embedVars, splitVars, storeVars, upVars, pipeVars, cliVars>>

\* the recursive character splitter on an empty text: no chunk
MD_plain_empty ==
    /\ mpc = "plain"
    /\ md_doc = <<>>
    /\ md_chunks' = <<>>
    /\ mpc' = "plain split"
    /\ UNCHANGED md_doc
    /\ UNCHANGED <<embedVars, splitVars, storeVars, upVars, pipeVars, cliVars>>

NextMarkdown == MD_detect \/ MD_module \/ MD_split \/ MD_plain \/ MD_plain_empty

SpecMarkdown == InitMarkdown /\ [][NextMarkdown]_vars

\* line k opens a chunk whose header path ends with the line's header
OpensChunkAsHeader(k) ==
    \E c \in 1..Len(md_chunks) :
        /\ md_chunks[c].first = k
        /\ md_chunks[c].metadata # <<>>
        /\ Last(md_chunks[c].metadata).level = md_doc[k].hashes
        /\ Last(md_chunks[c].metadata).data = md_doc[k].text

(***************************************************************************)
(* C27: the markdown chunker recognizes exactly the header levels 1 to 6   *)
(* (one to six '#' characters): a line is a header of one of these levels  *)
(* if and only if it starts a new chunk and is recorded in that chunk's    *)
(* header-path metadata.                                                   *)
(***************************************************************************)
C27_HeaderLevelsOneToSix ==
    mpc = "markdown split" =>
        \A k \in 1..Len(md_doc) :
            (md_doc[k].hashes \in 1..6) <=> OpensChunkAsHeader(k)



\* the chunk ordinal a record's metadata carries
Ordinal(r) ==
    IF driver = "final_embedding_solution"
    THEN r.metadata.chunk_id ELSE r.metadata.chunk_num

\* the record names the document it comes from
CarriesSource(r) ==
    IF driver = "final_embedding_solution"
    THEN r.metadata.document = basename(p_file)
    ELSE r.metadata.source = file_path(p_file)
         /\ r.metadata.document_id = doc_id(p_file)

(***************************************************************************)
(* C28: every record process_document builds pairs chunk i with embedding  *)
(* i: its metadata text is the text of the chunk whose embedding it        *)
(* carries, its metadata names the document, its chunk ordinal lies in     *)
(* 1..total_chunks, and total_chunks is the number of records built in the *)
(* run; this holds with model vectors and with mock vectors.               *)
(***************************************************************************)
C28_RecordMetadata ==
    (driver \in RerunDrivers /\ p_pc = "upsert") =>
        \A k \in 1..Len(up_vectors) :
            LET r == up_vectors[k]
            IN /\ r.metadata.text = p_chunks[k]
               /\ r.values = p_embeddings[k]
               /\ r.values.kind = "model" => r.values.of = E5Format(r.metadata.text)
               /\ CarriesSource(r)
               /\ Ordinal(r) = k
               /\ Ordinal(r) \in 1..r.metadata.total_chunks
               /\ r.metadata.total_chunks = Len(up_vectors)

C28_Witness ==
    /\ driver = "process_document"
    /\ p_pc = "upsert"
    /\ Len(up_vectors) = 2
    /\ up_vectors[1].values.kind = "mock"
    /\ up_vectors[1].metadata.text # up_vectors[2].metadata.text
    /\ up_vectors[2].metadata.total_chunks = 2



AllOfKind(vs, kind) == \A k \in 1..Len(vs) : vs[k].kind = kind

ModelFailed == \E j \in 1..Len(calls) : ~calls[j].ok

(***************************************************************************)
(* C29: the list get_embeddings returns is never a mixture: it consists    *)
(* entirely of model vectors or entirely of mock vectors.  When the model  *)
(* fails on batch k the model vectors of the batches before it are         *)
(* discarded and a mock vector is returned for every input text.           *)
(***************************************************************************)
C29_NeverAMixture ==
    (variant = "get_embeddings" /\ pc = "done") =>
        /\ AllOfKind(result, "model") \/ AllOfKind(result, "mock")
        /\ ModelFailed =>
              (Len(result) = Len(texts) /\ AllOfKind(result, "mock"))

C29_Witness ==
    /\ variant = "get_embeddings"
    /\ pc = "done"
    /\ Len(texts) = 3
    /\ Len(calls) = 2
    /\ calls[1].ok
    /\ ~calls[2].ok
    /\ all_embeddings # <<>>
    /\ Len(result) = 3
    /\ AllOfKind(result, "mock")

\* the tokenizer and the model were loaded
ModelLoaded == variant = "get_embeddings" => \E k \in 1..Len(log) : log[k] = "Using device"

(***************************************************************************)
(* C30: called with an empty list of texts and a working model, the        *)
(* batched embedders return an empty list as a normal result: no error is  *)
(* logged and the mock fallback is not taken.                              *)
(***************************************************************************)
C30_EmptyInputIsNormal ==
    (Batched /\ texts = <<>> /\ ~use_mock /\ ModelLoaded /\ pc = "done") =>
        /\ result = <<>>
        /\ ~usedMock
        /\ \A k \in 1..Len(log) :
              log[k] \notin {"Error loading or using the model",
                             "Falling back to mock embeddings"}

=============================================================================
